---- MODULE Spec2Model ----
(***************************************************************************)
(* State-machine model of the simulation engine of the game: the host     *)
(* component (App), the per-frame loop of GameCanvas and the handlers it   *)
(* calls (updatePlayer, updateEntities, damageEnemy, nextLevel, initLevel),*)
(* and the deferred callbacks scheduled with setTimeout.                   *)
(*                                                                         *)
(* Abstractions, each stated where it is used:                             *)
(*  - geometry: positions and velocities of bodies are not stored; every   *)
(*    overlap test of a tick (checkCollision, the exit rectangle, the tile *)
(*    under the player's feet) is an input of the tick;                    *)
(*  - fractional numbers: hitpoints and damage are kept in tenths (Scale); *)
(*  - the random firing cadence of ordinary enemies and of the mid boss is *)
(*    an input of the tick; the terminal boss's counters are exact;        *)
(*  - cosmetic state (particles, floating text, hit flash, camera) is      *)
(*    left out.                                                            *)
(***************************************************************************)
EXTENDS Integers, Sequences, FiniteSets, TLC

VARIABLES
    gameState,    \* App: useState<GameState>
    difficulty,   \* App: useState<Difficulty>
    saveData,     \* App: useState<SaveData>
    stats,        \* App: useState<GameStats>, what the overlay shows
    storage,      \* localStorage item 'etd_react_save' (<<>> when absent)
    game,         \* GameCanvas: gameRef.current
    timers,       \* pending setTimeout callbacks, in scheduling order
    loopSave,     \* saveData closed over by the callbacks of the running loop
    loopAlive,    \* the requestAnimationFrame chain is running
    calls         \* observations: progression callbacks invoked since the run
                  \* started, the last initLevel call, calls on the terminal boss

vars == <<gameState, difficulty, saveData, stats, storage, game, timers, loopSave, loopAlive,
          calls>>

----------------------------------------------------------------------------
(* Configuration (constants.ts) *)

WIDTH == 800
HEIGHT == 400
TILE_SIZE == 40
Rows == HEIGHT \div TILE_SIZE
Cols == WIDTH \div TILE_SIZE

\* Hitpoints and damage are stored in tenths of a point.
Scale == 10

Difficulties == {"EASY", "NORMAL", "HARD", "IMPOSSIBLE"}
GameStates == {"MENU", "PLAYING", "SHOP", "GAMEOVER", "VICTORY", "BOSS_INTRO", "EXITING"}

\* DIFFICULTY_MODES, in tenths.
DIFFICULTY_MODES ==
    [EASY       |-> [enemyHp |-> 4,  bossHp |-> 6,  damageMult |-> 5],
     NORMAL     |-> [enemyHp |-> 12, bossHp |-> 12, damageMult |-> 8],
     HARD       |-> [enemyHp |-> 25, bossHp |-> 25, damageMult |-> 15],
     IMPOSSIBLE |-> [enemyHp |-> 30, bossHp |-> 50, damageMult |-> 20]]

\* WEAPONS: dmg in tenths, rate in ticks, count of projectiles per shot.
WEAPONS ==
    [PISTOL     |-> [dmg |-> 25, rate |-> 18, type |-> "RANGED", auto |-> FALSE, count |-> 1],
     SHOTGUN    |-> [dmg |-> 12, rate |-> 45, type |-> "RANGED", auto |-> FALSE, count |-> 3],
     SWORD      |-> [dmg |-> 40, rate |-> 20, type |-> "MELEE",  auto |-> TRUE,  count |-> 1],
     MACHINEGUN |-> [dmg |-> 8,  rate |-> 6,  type |-> "RANGED", auto |-> TRUE,  count |-> 1]]

\* SHOP_ITEMS.
SHOP_ITEMS ==
    [hp_up      |-> [cost |-> 20, type |-> "STAT",   arg |-> "maxHp"],
     heal       |-> [cost |-> 10, type |-> "ACTION", arg |-> "HEAL"],
     armor      |-> [cost |-> 30, type |-> "ACTION", arg |-> "ARMOR"],
     shotgun    |-> [cost |-> 40, type |-> "WEAPON", arg |-> "SHOTGUN"],
     machinegun |-> [cost |-> 60, type |-> "WEAPON", arg |-> "MACHINEGUN"],
     sword      |-> [cost |-> 35, type |-> "WEAPON", arg |-> "SWORD"]]

----------------------------------------------------------------------------
(* Bounds of the model *)

\* The progression-callback counters in calls saturate at this value.
MaxCalls == 3
\* A projectile that meets no body enters a solid tile at most this many
\* ticks after it was fired (its straight path is fixed when it is fired).
MaxFlight == 3
\* At most this many projectiles overlap a body in one tick.
MaxHitsPerTick == 3
\* At most this many overlap and firing events are drawn for one tick.
MaxEventsPerTick == 2

Min(a, b) == IF a < b THEN a ELSE b
Max(a, b) == IF a > b THEN a ELSE b

----------------------------------------------------------------------------
(* Tile grid: mapTiles[y][x] of the code is mapTiles[y + 1][x + 1] here *)

EMPTY == 0
WALL == 1
PLATFORM == 2
HAZARD == 3
EXIT == 9

TileOf(m, x, y) == m[y + 1][x + 1]

SetTile(m, x, y, v) == [m EXCEPT ![y + 1][x + 1] = v]
\* Mutant of getTile: a coordinate outside the grid reads as empty.
getTile_OpenOutside(g, x, y) ==
    IF g.currentRoom.rows = 0 THEN WALL
    ELSE IF x < 0 \/ x >= g.currentRoom.cols \/ y < 0 \/ y >= g.currentRoom.rows THEN EMPTY
    ELSE TileOf(g.mapTiles, x, y)

\* getTile: out-of-range coordinates, and every coordinate while no room is
\* loaded, read as solid.
getTile(g, x, y) ==
    IF g.currentRoom.rows = 0 THEN WALL
    ELSE IF x < 0 \/ x >= g.currentRoom.cols \/ y < 0 \/ y >= g.currentRoom.rows THEN WALL
    ELSE TileOf(g.mapTiles, x, y)

\* Array(rows).fill(0).map(() => Array(cols).fill(0))
BlankMap == [r \in 1..Rows |-> [c \in 1..Cols |-> EMPTY]]

\* The border loops of initLevel (the same cells in all three room kinds).
WithBorder(m) ==
    [r \in 1..Rows |-> [c \in 1..Cols |->
        IF r = 1 \/ r = Rows \/ c = 1 \/ c = Cols THEN WALL ELSE m[r][c]]]

\* One iteration of the scatter loop writes code s.t to the cells of a run
\* of s.len cells from (s.x, s.y) rightwards that lie inside the border and
\* are empty.  SegmentCovers: (x, y) is a cell of that run.
SegmentCovers(s, x, y) ==
    /\ y = s.y
    /\ x \in s.x..(s.x + s.len - 1)
    /\ x < Cols - 1
    /\ s.y < Rows - 1

\* The code of cell (x, y) after the scatter iterations segs, from code v.
RECURSIVE ScatterCell(_, _, _, _)
ScatterCell(v, segs, x, y) ==
    IF segs = <<>> THEN v
    ELSE ScatterCell(IF v = EMPTY /\ SegmentCovers(Head(segs), x, y) THEN Head(segs).t ELSE v,
                     Tail(segs), x, y)

\* The hazard loop: columns 5..cols-3 of row rows-2, where the draw says so
\* and the cell is empty.
HazardCell(v, hz, x, y) ==
    IF y = Rows - 2 /\ x \in 5..(Cols - 3) /\ x \in hz /\ v = EMPTY THEN HAZARD ELSE v

\* The victory-exit sequence empties column cols-1 in every row.
ClearRightColumn(g) ==
    [g EXCEPT !.mapTiles =
        [r \in 1..Len(g.mapTiles) |-> [c \in 1..Len(g.mapTiles[r]) |->
            IF r - 1 < g.currentRoom.rows /\ c - 1 = g.currentRoom.cols - 1
            THEN EMPTY ELSE g.mapTiles[r][c]]]]

----------------------------------------------------------------------------
(* updatePhysics.  Positions, sizes and velocities are kept in tenths of a  *)
(* pixel, which holds every value the bodies below take (speeds 3 and 4,    *)
(* jump -12, gravity 0.8, the offset 0.1 of the tile range).                *)

Sub == 10
Tile == TILE_SIZE * Sub
\* CONFIG.GRAVITY = 0.8 and CONFIG.MAX_VEL_Y = 15.
GRAVITY == 8
MAX_VEL_Y == 15 * Sub

\* The cells (x, y) of the double loop for (y = ty1..ty2) for (x = tx1..tx2),
\* in the order the loop visits them; the bounds are taken from the body e
\* before the loop.
Cells(e) ==
    LET tx1 == e.x \div Tile
        tx2 == (e.x + e.w - 1) \div Tile
        ty1 == e.y \div Tile
        ty2 == (e.y + e.h - 1) \div Tile
        wd == tx2 - tx1 + 1
        ht == ty2 - ty1 + 1
    IN IF wd <= 0 \/ ht <= 0 THEN <<>>
       ELSE [k \in 1..(wd * ht) |-> <<tx1 + ((k - 1) % wd), ty1 + ((k - 1) \div wd)>>]

\* The body of the first double loop: a solid tile stops horizontal motion.
HStep(g, e, cell) ==
    IF getTile(g, cell[1], cell[2]) = WALL
    THEN [e EXCEPT !.x = IF e.vx > 0 THEN cell[1] * Tile - e.w
                         ELSE IF e.vx < 0 THEN (cell[1] + 1) * Tile
                         ELSE @,
                   !.vx = 0]
    ELSE e

\* entity.y + entity.h - entity.vy is a sum of IEEE doubles.  For the bodies
\* of SpecPhysics it equals the exact sum with one exception: with
\* y = 92.8 and vy = 8.799999999999999 as eleven additions of 0.8 from rest
\* at y = 40 leave them, and h = 36, it evaluates to 120.00000000000001.
SumRoundsUp(e) == <<e.y, e.h, e.vy>> \in {<<928, 360, 88>>}

\* The test of a one-way tile:
\* entity.vy > 0 && entity.y + entity.h - entity.vy <= tileTop.
LandsOn(e, tileTop) ==
    /\ e.vy > 0
    /\ e.y + e.h - e.vy <= tileTop
    /\ ~(SumRoundsUp(e) /\ e.y + e.h - e.vy = tileTop)

\* Mutant of VStep: a one-way tile also stops a body that rises through it.
VStep_PlatformSolid(g, e, cell) ==
    LET t == getTile(g, cell[1], cell[2])
        tileTop == cell[2] * Tile
    IN IF t = PLATFORM \/ t = WALL
       THEN [e EXCEPT !.y = IF e.vy > 0 THEN tileTop - e.h
                            ELSE IF e.vy < 0 THEN (cell[2] + 1) * Tile
                            ELSE @,
                      !.onGround = IF e.vy > 0 THEN TRUE ELSE @,
                      !.vy = 0]
       ELSE e

\* Mutant of VStep: landing on a solid tile does not set onGround.
VStep_NoGround(g, e, cell) ==
    LET t == getTile(g, cell[1], cell[2])
        tileTop == cell[2] * Tile
    IN IF t = PLATFORM
       THEN IF LandsOn(e, tileTop)
            THEN [e EXCEPT !.y = tileTop - e.h, !.vy = 0, !.onGround = TRUE]
            ELSE e
       ELSE IF t = WALL
       THEN [e EXCEPT !.y = IF e.vy > 0 THEN tileTop - e.h
                            ELSE IF e.vy < 0 THEN (cell[2] + 1) * Tile
                            ELSE @,
                      !.vy = 0]
       ELSE e

\* The body of the second double loop.
VStep(g, e, cell) ==
    LET t == getTile(g, cell[1], cell[2])
        tileTop == cell[2] * Tile
    IN IF t = PLATFORM
       THEN IF LandsOn(e, tileTop)
            THEN [e EXCEPT !.y = tileTop - e.h, !.vy = 0, !.onGround = TRUE]
            ELSE e
       ELSE IF t = WALL
       THEN [e EXCEPT !.y = IF e.vy > 0 THEN tileTop - e.h
                            ELSE IF e.vy < 0 THEN (cell[2] + 1) * Tile
                            ELSE @,
                      !.onGround = IF e.vy > 0 THEN TRUE ELSE @,
                      !.vy = 0]
       ELSE e

RECURSIVE HLoop(_, _, _, _)
HLoop(g, e, cells, k) ==
    IF k > Len(cells) THEN e ELSE HLoop(g, HStep(g, e, cells[k]), cells, k + 1)

RECURSIVE VLoop(_, _, _, _)
VLoop(g, e, cells, k) ==
    IF k > Len(cells) THEN e ELSE VLoop(g, VStep(g, e, cells[k]), cells, k + 1)

\* Gravity, the horizontal move and the first double loop.
HPhase(g, e) ==
    LET e1 == [e EXCEPT !.vy = Min(@ + GRAVITY, MAX_VEL_Y), !.x = @ + e.vx]
    IN HLoop(g, e1, Cells(e1), 1)

\* The vertical move and the second double loop.
VPhase(g, e) ==
    LET e1 == [e EXCEPT !.y = @ + e.vy]
    IN VLoop(g, [e1 EXCEPT !.onGround = FALSE], Cells(e1), 1)

updatePhysics(g, e) == IF e.dead THEN e ELSE VPhase(g, HPhase(g, e))

\* The movement part of updatePlayer: dir is moveDir, jump a pressed jump
\* key.
Steer(p, dir, jump) ==
    [p EXCEPT !.vx = dir * (IF p.onGround THEN 4 ELSE 3) * Sub,
              !.vy = IF p.onGround /\ jump THEN -12 * Sub ELSE @]

\* The record p carries the physical fields x, y, w, h, vx, vy, onGround.
\* The players of the specifications about motion do; the others stand for
\* a player at any position.
HasBody(p) == "x" \in DOMAIN p

\* Mutant of Spawned: the player stays where it stood.
Spawned_InPlace(p) ==
    IF HasBody(p) THEN [p EXCEPT !.vx = 0, !.vy = 0] ELSE p

\* The "Player Spawn" block of initLevel.
Spawned(p) ==
    IF HasBody(p)
    THEN [p EXCEPT !.x = TILE_SIZE * 2 * Sub,
                   !.y = HEIGHT * Sub - TILE_SIZE * 2 * Sub - p.h,
                   !.vx = 0,
                   !.vy = 0]
    ELSE p

\* game.player.x += 4; updatePhysics(game.player) of the EXITING branch of
\* loop.
WalkOff(g, p) == IF HasBody(p) THEN updatePhysics(g, [p EXCEPT !.x = @ + 4 * Sub]) ELSE p

\* if (game.player) updatePhysics(game.player) of the BOSS_INTRO branch.
Settle(g, p) == IF HasBody(p) THEN updatePhysics(g, p) ELSE p

----------------------------------------------------------------------------
(* Host (App) handlers.  A handler runs on a context record c that carries  *)
(* the state the current event has produced so far: c.game, c.gs (the last  *)
(* value given to setGameState), c.save, c.store, c.timers, c.calls, and    *)
(* c.crashed (a TypeError has ended the event).                             *)

Bump(n) == Min(n + 1, MaxCalls)

setGameState(c, s) == [c EXCEPT !.gs = s]

\* setTimeout(callback, delay): the callback keeps the difficulty of the
\* render that created it.
setTimeout(c, kind, delay, diff) ==
    [c EXCEPT !.timers = Append(@, [kind |-> kind, delay |-> delay, diff |-> diff])]

\* handleGameOver, as closed over the save data cs.
handleGameOver(c, cs, reason, room) ==
    LET c1 == [c EXCEPT !.gs = "GAMEOVER",
                        !.calls.gameOver = Bump(@),
                        !.calls.reason = reason,
                        !.calls.room = room]
    IN IF room > cs.bestRoom
       THEN [c1 EXCEPT !.save = [cs EXCEPT !.bestRoom = room],
                       !.store = <<[cs EXCEPT !.bestRoom = room]>>]
       ELSE c1

handleVictory(c) == [c EXCEPT !.gs = "VICTORY", !.calls.victory = Bump(@)]

\* useState<GameStats>({ ..., money: 0, ..., weapon: 'PISTOL', ... }).  The
\* fields that the overlay only displays (hp, maxHp, room, score) are left
\* out; money and weapon decide which shop buttons are enabled.
InitialStats == [money |-> 0, weapon |-> "PISTOL"]

\* handleUpdateStats with the snapshot the loop takes of the player.
handleUpdateStats(c) ==
    LET p == c.game.player[1]
    IN [c EXCEPT !.stats = [money |-> p.money, weapon |-> p.weapon]]

\* Mutant of onShopOpen: the callback leaves the game state as it is.
onShopOpen_NoState(c) == [c EXCEPT !.calls.shopOpen = Bump(@)]

\* onShopOpen={() => setGameState('SHOP')}
onShopOpen(c) == [c EXCEPT !.gs = "SHOP", !.calls.shopOpen = Bump(@)]

\* handleUnlockImpossible, as closed over the save data cs.
handleUnlockImpossible(c, cs) ==
    LET c1 == [c EXCEPT !.calls.unlock = Bump(@)]
    IN IF ~cs.impossibleUnlocked
       THEN [c1 EXCEPT !.save = [cs EXCEPT !.impossibleUnlocked = TRUE],
                       !.store = <<[cs EXCEPT !.impossibleUnlocked = TRUE]>>,
                       !.calls.unlockWrites = Bump(@)]
       ELSE c1

----------------------------------------------------------------------------
(* Room generation *)

TerminalLevel == 10

\* stats table of initLevel: base hitpoints and damage per enemy type.
EnemyStats ==
    [NORMAL   |-> [hp |-> 10, dmg |-> 1, money |-> 5],
     ARCHER   |-> [hp |-> 20, dmg |-> 1, money |-> 8],
     TANK     |-> [hp |-> 30, dmg |-> 2, money |-> 12],
     MID_BOSS |-> [hp |-> 65, dmg |-> 2, money |-> 50]]

Pickups == {"HEART", "MONEY"}
Passive == {"SHOPKEEPER", "HEART", "MONEY"}

\* The filter e.type !== 'SHOPKEEPER' && e.type !== 'HEART' && e.type !== 'MONEY'.
Hostile(e) == e.type \notin Passive

\* An entity that is no enemy has no enemy fields in the code; here they are
\* present and zero ("NONE" for the undefined bossState).
Item(type) ==
    [type |-> type, hp |-> 0, maxHp |-> 0, damage |-> 0, dead |-> FALSE,
     isBoss |-> FALSE, bossState |-> "NONE", attackCount |-> 0,
     attackCooldown |-> 0, sleepTimer |-> 0]

\* Mutant of FinalBoss: the boss is created with the cooldown of a reload.
FinalBoss_ShortFuse ==
    [type |-> "IMPOSSIBLE_FINAL_BOSS", hp |-> 3 * Scale, maxHp |-> 3 * Scale,
     damage |-> 3 * Scale, dead |-> FALSE, isBoss |-> TRUE, bossState |-> "ATTACK",
     attackCount |-> 0, attackCooldown |-> 50, sleepTimer |-> 0]

\* The terminal boss created by initLevel.
FinalBoss ==
    [type |-> "IMPOSSIBLE_FINAL_BOSS", hp |-> 3 * Scale, maxHp |-> 3 * Scale,
     damage |-> 3 * Scale, dead |-> FALSE, isBoss |-> TRUE, bossState |-> "ATTACK",
     attackCount |-> 0, attackCooldown |-> 90, sleepTimer |-> 0]

\* An enemy of a combat room; its attack cooldown is a random real number in
\* the code and is not stored (the tick takes "fires" as an input).
NewEnemy(type, diff) ==
    LET base == EnemyStats[type]
        mode == DIFFICULTY_MODES[diff]
        hp0 == base.hp * (IF type = "MID_BOSS" THEN mode.bossHp ELSE mode.enemyHp)
    IN [type |-> type, hp |-> hp0, maxHp |-> hp0, damage |-> base.dmg * mode.damageMult,
        dead |-> FALSE, isBoss |-> (type = "MID_BOSS"), bossState |-> "NONE",
        attackCount |-> 0, attackCooldown |-> 0, sleepTimer |-> 0]

\* let enemyCount = ... of initLevel.
EnemyCount(levelNum, diff) ==
    LET n0 == Min(6, (levelNum \div 2) + 1)
        n1 == IF diff = "NORMAL" THEN Max(1, n0 - 1) ELSE n0
        n2 == IF diff = "EASY" THEN Max(1, n1) ELSE n1
    IN IF levelNum = TerminalLevel /\ diff # "IMPOSSIBLE" THEN 1 ELSE n2

\* Mutant of EnemyType: the TANK draw is made from level 4 on.
EnemyType_TankEarly(levelNum, diff, draw) ==
    IF levelNum = TerminalLevel /\ diff # "IMPOSSIBLE" THEN "MID_BOSS"
    ELSE IF levelNum > 3 /\ draw.tank THEN "TANK"
    ELSE IF levelNum > 3 /\ draw.arch THEN "ARCHER"
    ELSE "NORMAL"

\* The type of one enemy, from its two random draws (arch: the first draw
\* exceeded 0.6, tank: the second exceeded 0.8).
EnemyType(levelNum, diff, draw) ==
    IF levelNum = TerminalLevel /\ diff # "IMPOSSIBLE" THEN "MID_BOSS"
    ELSE IF levelNum > 6 /\ draw.tank THEN "TANK"
    ELSE IF levelNum > 3 /\ draw.arch THEN "ARCHER"
    ELSE "NORMAL"

\* Mutant of RoomKind: the shop test comes first and has no exception.
RoomKind_ShopFirst(levelNum, diff) ==
    IF levelNum % 5 = 0 THEN "SHOP"
    ELSE IF diff = "IMPOSSIBLE" /\ levelNum = TerminalLevel THEN "BOSS"
    ELSE "COMBAT"

\* Which of the three branches of initLevel runs.
RoomKind(levelNum, diff) ==
    IF diff = "IMPOSSIBLE" /\ levelNum = TerminalLevel THEN "BOSS"
    ELSE IF levelNum % 5 = 0 /\ ~(levelNum = TerminalLevel /\ diff = "IMPOSSIBLE") THEN "SHOP"
    ELSE "COMBAT"

\* The sample of the spawn cell with number n (1, 2, ...): the draws sm
\* give the cell sm.a for the first sm.lead samples and sm.b afterwards.
SampleCell(sm, n) == IF n <= sm.lead THEN sm.a ELSE sm.b

\* do { ex, ey = sample; attempts++ } while (getTile(ex, ey) !== 0 &&
\* attempts < 50), from `attempts` samples taken so far.
RECURSIVE SpawnLoop(_, _, _)
SpawnLoop(tiles, sm, attempts) ==
    LET cell == SampleCell(sm, attempts + 1)
        n == attempts + 1
    IN IF TileOf(tiles, cell[1], cell[2]) # EMPTY /\ n < 50
       THEN SpawnLoop(tiles, sm, n)
       ELSE [attempts |-> n, sx |-> cell[1], sy |-> cell[2],
             x |-> cell[1], y |-> cell[2], fallback |-> FALSE]

\* The cell (x, y) an enemy is placed on: the last sample (sx, sy) of the
\* loop, or (cols/2, 2) when attempts >= 50.
SpawnCell(tiles, sm) ==
    LET r == SpawnLoop(tiles, sm, 0)
    IN IF r.attempts >= 50
       THEN [r EXCEPT !.x = Cols \div 2, !.y = 2, !.fallback = TRUE]
       ELSE r

\* for (k = 0; k < Math.random() * 4; k++): the number of coins pushed, from
\* k coins.  The test draws a new number each time; rs[k + 1] is the draw of
\* the test of k, given as the least integer q >= 4 * draw (0 for a draw of
\* exactly 0, 4 for a draw above 0.75), so that k < 4 * draw iff k < q.
RECURSIVE CoinLoop(_, _)
CoinLoop(rs, k) ==
    IF k + 1 > Len(rs) THEN k
    ELSE IF k < rs[k + 1] THEN CoinLoop(rs, k + 1)
    ELSE k

\* The tile grid of a combat room from its draws d.
CombatTiles(d) ==
    [r \in 1..Rows |-> [c \in 1..Cols |->
        IF r - 1 = Rows - 2 /\ c - 1 = Cols - 2 THEN EXIT
        ELSE HazardCell(ScatterCell(WithBorder(BlankMap)[r][c], d.segs, c - 1, r - 1),
                        d.hazards, c - 1, r - 1)]]

\* The entities of a combat room: the enemies, then the optional heart, then
\* the coins (the coin loop draws anew on every test, so it runs 0 to 4 times).
CombatEntities(levelNum, diff, d) ==
    [i \in 1..EnemyCount(levelNum, diff) |-> NewEnemy(EnemyType(levelNum, diff, d.types[i]), diff)]
    \o (IF d.heart THEN <<Item("HEART")>> ELSE <<>>)
    \o [k \in 1..d.coins |-> Item("MONEY")]

\* initLevel(levelNum) of a render whose difficulty is diff, with random
\* draws d.  The player, when there is one, is moved to the spawn point and
\* otherwise left as it is.  calls.load records the arguments of the last
\* call (n alternates, so that two equal calls in a row are told apart).
initLevel(c, levelNum, diff, d) ==
    LET g0 == [c.game EXCEPT !.entities = <<>>,
                             !.projectiles = <<>>,
                             !.mapCrumbleProgress = 0,
                             !.victoryExiting = FALSE,
                             !.currentRoom = [rows |-> Rows, cols |-> Cols],
                             !.player = [k \in 1..Len(@) |-> Spawned(@[k])]]
        c0 == [c EXCEPT !.calls.load = [level |-> levelNum, diff |-> diff, n |-> 1 - @.n],
                        !.calls.intro = 0]
    IN CASE RoomKind(levelNum, diff) = "BOSS" ->
              [setGameState(c0, "BOSS_INTRO") EXCEPT
                  !.calls.salvos = 0, !.calls.asleepHits = 0, !.calls.awakeHits = 0,
                  !.game = [g0 EXCEPT !.mapTiles = WithBorder(BlankMap),
                                      !.entities = <<FinalBoss>>]]
         [] RoomKind(levelNum, diff) = "SHOP" ->
              [onShopOpen(c0) EXCEPT
                  !.game = [g0 EXCEPT !.mapTiles = WithBorder(BlankMap),
                                      !.entities = <<Item("SHOPKEEPER")>>]]
         [] OTHER ->
              [c0 EXCEPT
                  !.calls.spawn = SpawnCell(CombatTiles(d), d.samples),
                  !.game = [g0 EXCEPT !.mapTiles = CombatTiles(d),
                                      !.entities = CombatEntities(levelNum, diff, d)]]

----------------------------------------------------------------------------
(* Combat *)

HasPlayer(g) == g.player # <<>>

\* The victory-exit sequence shared by damageEnemy and nextLevel.
VictoryExit(c, delay, diff) ==
    setTimeout([setGameState(c, "EXITING") EXCEPT
                   !.game = ClearRightColumn([c.game EXCEPT !.victoryExiting = TRUE])],
               "victory", delay, diff)

\* Mutant of EnemyDeath: the bounty is the money field of the enemy's stats.
EnemyDeath_ByStatsMoney(c, i, diff, cs) ==
    LET e == c.game.entities[i]
        c1 == [c EXCEPT !.game.entities[i].dead = TRUE]
    IN IF ~HasPlayer(c.game) THEN [c1 EXCEPT !.crashed = TRUE]
       ELSE LET c2 == [c1 EXCEPT !.game.player[1].money = @ + EnemyStats[e.type].money]
            IN IF e.type = "MID_BOSS" /\ diff = "HARD"
               THEN handleUnlockImpossible(c2, cs) ELSE c2

\* The ordinary path of damageEnemy once hitpoints are <= 0.
EnemyDeath(c, i, diff, cs) ==
    LET e == c.game.entities[i]
        c1 == [c EXCEPT !.game.entities[i].dead = TRUE]
    IN IF ~HasPlayer(c.game) THEN [c1 EXCEPT !.crashed = TRUE]
       ELSE LET c2 == [c1 EXCEPT !.game.player[1].money =
                          @ + (IF e.type = "BOSS" \/ e.type = "MID_BOSS" THEN 50 ELSE 5)]
            IN IF e.type = "MID_BOSS" /\ diff = "HARD"
               THEN handleUnlockImpossible(c2, cs) ELSE c2

\* Mutant of damageEnemy: the sleeping boss loses the amount of the hit.
damageEnemy_ByAmount(c, i, amt, diff, cs) ==
    LET e == c.game.entities[i]
    IN IF e.isBoss /\ e.type = "IMPOSSIBLE_FINAL_BOSS"
       THEN IF e.bossState # "SLEEP" THEN [c EXCEPT !.calls.awakeHits = Bump(@)]
            ELSE LET c1 == [c EXCEPT !.game.entities[i].hp = @ - amt,
                                     !.calls.asleepHits = @ + 1]
                 IN IF c1.game.entities[i].hp <= 0
                    THEN VictoryExit([c1 EXCEPT !.game.entities[i].dead = TRUE], 2500, diff)
                    ELSE c1
       ELSE LET c1 == [c EXCEPT !.game.entities[i].hp = @ - amt]
            IN IF c1.game.entities[i].hp <= 0 THEN EnemyDeath(c1, i, diff, cs) ELSE c1

\* Mutant of damageEnemy: a hit on the boss in ATTACK takes a hitpoint too.
damageEnemy_NoPhaseTest(c, i, amt, diff, cs) ==
    LET e == c.game.entities[i]
    IN IF e.isBoss /\ e.type = "IMPOSSIBLE_FINAL_BOSS"
       THEN IF e.bossState # "SLEEP"
            THEN [c EXCEPT !.calls.awakeHits = Bump(@), !.game.entities[i].hp = @ - 1 * Scale]
            ELSE LET c1 == [c EXCEPT !.game.entities[i].hp = @ - 1 * Scale,
                                     !.calls.asleepHits = @ + 1]
                 IN IF c1.game.entities[i].hp <= 0
                    THEN VictoryExit([c1 EXCEPT !.game.entities[i].dead = TRUE], 2500, diff)
                    ELSE c1
       ELSE LET c1 == [c EXCEPT !.game.entities[i].hp = @ - amt]
            IN IF c1.game.entities[i].hp <= 0 THEN EnemyDeath(c1, i, diff, cs) ELSE c1

\* damageEnemy(e, amt) for the entity at index i; amt in tenths.
\* calls.awakeHits and calls.asleepHits count the calls made on the terminal
\* boss by the phase it was in when the call was made: awakeHits those of
\* the current tick, asleepHits those made since the room was loaded.
damageEnemy(c, i, amt, diff, cs) ==
    LET e == c.game.entities[i]
    IN IF e.isBoss /\ e.type = "IMPOSSIBLE_FINAL_BOSS"
       THEN IF e.bossState # "SLEEP" THEN [c EXCEPT !.calls.awakeHits = Bump(@)]
            ELSE LET c1 == [c EXCEPT !.game.entities[i].hp = @ - 1 * Scale,
                                     !.calls.asleepHits = @ + 1]
                 IN IF c1.game.entities[i].hp <= 0
                    THEN VictoryExit([c1 EXCEPT !.game.entities[i].dead = TRUE], 2500, diff)
                    ELSE c1
       ELSE LET c1 == [c EXCEPT !.game.entities[i].hp = @ - amt]
            IN IF c1.game.entities[i].hp <= 0 THEN EnemyDeath(c1, i, diff, cs) ELSE c1

\* Mutant of nextLevel: the terminal level is left like any other.
nextLevel_NoTerminal(c, diff) ==
    setTimeout(setGameState([c EXCEPT !.game.level = @ + 1], "EXITING"), "level", 1000, diff)

\* nextLevel of a render whose difficulty is diff.
nextLevel(c, diff) ==
    IF c.game.level = TerminalLevel /\ diff # "IMPOSSIBLE"
    THEN VictoryExit(c, 2000, diff)
    ELSE setTimeout(setGameState([c EXCEPT !.game.level = @ + 1], "EXITING"),
                    "level", 1000, diff)

\* A damage source has found the player inside the invincibility window:
\* nothing happens; calls.blocked records it for the current tick.
Shielded(c) == [c EXCEPT !.calls.blocked = TRUE]

\* Mutant of HurtPlayer: the hit starts no invincibility window.
HurtPlayer_NoWindow(c, cs, reason) ==
    LET c1 == [c EXCEPT !.game.player[1].hp = @ - 1,
                        !.calls.hurtBy = reason]
    IN IF c1.game.player[1].hp <= 0
       THEN handleGameOver(c1, cs, reason, c1.game.level)
       ELSE c1

\* One of the four places that take a hitpoint from the player: hp--, the
\* invincibility window, and game over at zero.  calls.hurtBy keeps the place.
HurtPlayer(c, cs, reason) ==
    LET c1 == [c EXCEPT !.game.player[1].hp = @ - 1,
                        !.game.player[1].invincibleTimer = 60,
                        !.calls.hurtBy = reason]
    IN IF c1.game.player[1].hp <= 0
       THEN handleGameOver(c1, cs, reason, c1.game.level)
       ELSE c1

----------------------------------------------------------------------------
(* updatePlayer.  Inputs of a tick (record in):                             *)
(*   fell       p.y > HEIGHT + 100 after the physics step                   *)
(*   hazard     the tile under the player's feet is a hazard                *)
(*   touchExit  the player's rectangle overlaps the exit cell               *)
(*   melee      indices of the entities the melee hitbox overlaps           *)
(*   touch      indices (after the dead filter) of the entities that        *)
(*              overlap the player                                          *)
(*   fires      indices (after the dead filter) of the ordinary enemies     *)
(*              and mid bosses whose cooldown has run out in range          *)
(*   pTarget, pCount   the first pCount player projectiles in flight        *)
(*              overlap the entity at index pTarget (0: none does)          *)
(*   eHits      the first eHits enemy projectiles in flight overlap the     *)
(*              player                                                      *)
(*   flight     ticks until the projectiles fired in this tick enter a      *)
(*              solid tile                                                  *)

\* A projectile of the code, with two observations: configured, the lifetime
\* it was created with, and ticks, the number of frames it has been in
\* game.projectiles at the end of.
NewProjectile(owner, damage, lifetime, flight) ==
    [owner |-> owner, damage |-> damage, lifetime |-> lifetime, wallIn |-> flight,
     dead |-> FALSE, configured |-> lifetime, ticks |-> 0]

RECURSIVE MeleeLoop(_, _, _, _, _, _)
MeleeLoop(c, i, amt, in, diff, cs) ==
    IF i > Len(c.game.entities) \/ c.crashed THEN c
    ELSE MeleeLoop(IF Hostile(c.game.entities[i]) /\ i \in in.melee
                   THEN damageEnemy(c, i, amt, diff, cs) ELSE c,
                   i + 1, amt, in, diff, cs)

\* The attack block of updatePlayer.  calls.shots counts the shots of a
\* non-auto weapon since the Enter key went down, while it stays down.
PlayerAttack(c, in, diff, cs) ==
    LET p == c.game.player[1]
        weapon == WEAPONS[p.weapon]
        cd == IF p.attackCooldown > 0 THEN p.attackCooldown - 1 ELSE p.attackCooldown
        c1 == [c EXCEPT !.game.player[1].attackCooldown = cd]
        wantToShoot == c.game.mouseDown \/ c.game.keyEnter
    IN IF wantToShoot /\ cd <= 0
       THEN LET c2 == [c1 EXCEPT !.game.player[1].attackCooldown = weapon.rate]
                c3 == IF weapon.type = "RANGED"
                      THEN [c2 EXCEPT !.game.projectiles = @ \o
                               [k \in 1..weapon.count |->
                                   NewProjectile("player", weapon.dmg, 120, in.flight)]]
                      ELSE MeleeLoop(c2, 1, weapon.dmg, in, diff, cs)
            IN IF ~weapon.auto
               THEN [c3 EXCEPT !.game.mouseDown = FALSE,
                               !.calls.shots = IF c.game.keyEnter THEN Min(@ + 1, 2) ELSE 0]
               ELSE c3
       ELSE c1

ActiveEnemies(g) ==
    Cardinality({i \in 1..Len(g.entities) : ~g.entities[i].dead /\ Hostile(g.entities[i])})

\* Mutant of ExitCheck: the exit is open while enemies are alive.
ExitCheck_NoEnemyTest(c, in, diff) ==
    IF c.game.currentRoom.rows > 0 /\ ~c.game.victoryExiting /\ in.touchExit
       /\ ~(diff = "IMPOSSIBLE" /\ c.game.level = TerminalLevel)
    THEN nextLevel([c EXCEPT !.calls.next = [touch |-> in.touchExit,
                                             active |-> ActiveEnemies(c.game)]], diff)
    ELSE c

\* The exit block of updatePlayer.  calls.next keeps, for the current tick,
\* the touchingExit and activeEnemies with which nextLevel was called.
ExitCheck(c, in, diff) ==
    IF c.game.currentRoom.rows > 0 /\ ~c.game.victoryExiting /\ in.touchExit
       /\ ActiveEnemies(c.game) = 0
       /\ ~(diff = "IMPOSSIBLE" /\ c.game.level = TerminalLevel)
    THEN nextLevel([c EXCEPT !.calls.next = [touch |-> in.touchExit,
                                             active |-> ActiveEnemies(c.game)]], diff)
    ELSE c

updatePlayer(c, in, diff, cs) ==
    IF ~HasPlayer(c.game) THEN c
    ELSE LET c1 == PlayerAttack(c, in, diff, cs)
             c2 == [c1 EXCEPT !.game.player[1].invincibleTimer = IF @ > 0 THEN @ - 1 ELSE @]
             c3 == IF in.fell
                   THEN handleGameOver([c2 EXCEPT !.game.player[1].hp = 0], cs,
                                       "Fell into the abyss", c2.game.level)
                   ELSE c2
             c4 == IF in.hazard /\ c3.game.player[1].invincibleTimer = 0
                   THEN HurtPlayer(c3, cs, "Impaled on spikes")
                   ELSE IF in.hazard THEN Shielded(c3)
                   ELSE c3
         IN ExitCheck(c4, in, diff)

----------------------------------------------------------------------------
(* updateEntities *)

\* Mutant of BossStep: the boss falls asleep with its eleventh salvo.
BossStep_ElevenSalvos(c, i, in) ==
    LET e == c.game.entities[i]
    IN IF e.bossState = "ATTACK"
       THEN LET cd == e.attackCooldown - 1
            IN IF cd <= 0
               THEN LET n == e.attackCount + 1
                        c1 == [c EXCEPT !.game.entities[i].attackCooldown = 50,
                                        !.game.entities[i].attackCount = n,
                                        !.calls.salvos = @ + 1,
                                        !.game.projectiles = @ \o
                                            [k \in 1..16 |->
                                                NewProjectile("enemy", 2 * Scale, 200, in.flight)]]
                    IN IF n > 10
                       THEN [c1 EXCEPT !.game.entities[i].bossState = "SLEEP",
                                       !.game.entities[i].sleepTimer = 300]
                       ELSE c1
               ELSE [c EXCEPT !.game.entities[i].attackCooldown = cd]
       ELSE IF e.bossState = "SLEEP"
       THEN LET t == e.sleepTimer - 1
            IN IF t <= 0
               THEN [c EXCEPT !.game.entities[i].sleepTimer = t,
                              !.game.entities[i].bossState = "ATTACK",
                              !.game.entities[i].attackCount = 0,
                              !.calls.salvos = 0]
               ELSE [c EXCEPT !.game.entities[i].sleepTimer = t]
       ELSE c

\* Mutant of BossStep: waking leaves the attack counter as it is.
BossStep_NoReset(c, i, in) ==
    LET e == c.game.entities[i]
    IN IF e.bossState = "ATTACK"
       THEN LET cd == e.attackCooldown - 1
            IN IF cd <= 0
               THEN LET n == e.attackCount + 1
                        c1 == [c EXCEPT !.game.entities[i].attackCooldown = 50,
                                        !.game.entities[i].attackCount = n,
                                        !.calls.salvos = @ + 1,
                                        !.game.projectiles = @ \o
                                            [k \in 1..16 |->
                                                NewProjectile("enemy", 2 * Scale, 200, in.flight)]]
                    IN IF n >= 10
                       THEN [c1 EXCEPT !.game.entities[i].bossState = "SLEEP",
                                       !.game.entities[i].sleepTimer = 300]
                       ELSE c1
               ELSE [c EXCEPT !.game.entities[i].attackCooldown = cd]
       ELSE IF e.bossState = "SLEEP"
       THEN LET t == e.sleepTimer - 1
            IN IF t <= 0
               THEN [c EXCEPT !.game.entities[i].sleepTimer = t,
                              !.game.entities[i].bossState = "ATTACK",
                              !.calls.salvos = 0]
               ELSE [c EXCEPT !.game.entities[i].sleepTimer = t]
       ELSE c

\* The phase machine of the terminal boss, one tick.  calls.salvos counts
\* the salvos pushed since the boss was created or last woke.
BossStep(c, i, in) ==
    LET e == c.game.entities[i]
    IN IF e.bossState = "ATTACK"
       THEN LET cd == e.attackCooldown - 1
            IN IF cd <= 0
               THEN LET n == e.attackCount + 1
                        c1 == [c EXCEPT !.game.entities[i].attackCooldown = 50,
                                        !.game.entities[i].attackCount = n,
                                        !.calls.salvos = @ + 1,
                                        !.game.projectiles = @ \o
                                            [k \in 1..16 |->
                                                NewProjectile("enemy", 2 * Scale, 200, in.flight)]]
                    IN IF n >= 10
                       THEN [c1 EXCEPT !.game.entities[i].bossState = "SLEEP",
                                       !.game.entities[i].sleepTimer = 300]
                       ELSE c1
               ELSE [c EXCEPT !.game.entities[i].attackCooldown = cd]
       ELSE IF e.bossState = "SLEEP"
       THEN LET t == e.sleepTimer - 1
            IN IF t <= 0
               THEN [c EXCEPT !.game.entities[i].sleepTimer = t,
                              !.game.entities[i].bossState = "ATTACK",
                              !.game.entities[i].attackCount = 0,
                              !.calls.salvos = 0]
               ELSE [c EXCEPT !.game.entities[i].sleepTimer = t]
       ELSE c

\* Mutant of ContactDamage: the contact takes the enemy's damage value.
ContactDamage_ByEnemyDamage(c, i, in, cs) ==
    IF ~HasPlayer(c.game) THEN [c EXCEPT !.crashed = TRUE]
    ELSE LET c1 == IF i \in in.touch /\ c.game.entities[i].bossState = "SLEEP"
                   THEN [c EXCEPT !.calls.sleepTouch = TRUE] ELSE c
         IN IF /\ i \in in.touch
               /\ c.game.player[1].invincibleTimer = 0
               /\ c.game.entities[i].bossState # "SLEEP"
            THEN LET c2 == [c1 EXCEPT !.game.player[1].hp =
                                          @ - (c.game.entities[i].damage \div Scale),
                                      !.game.player[1].invincibleTimer = 60,
                                      !.calls.hurtBy = "Killed by"]
                 IN IF c2.game.player[1].hp <= 0
                    THEN handleGameOver(c2, cs, "Killed by", c2.game.level)
                    ELSE c2
            ELSE IF i \in in.touch /\ c.game.entities[i].bossState # "SLEEP"
            THEN Shielded(c1)
            ELSE c1

\* Mutant of ContactDamage: the test does not look at the phase of the boss.
ContactDamage_NoSleepTest(c, i, in, cs) ==
    IF ~HasPlayer(c.game) THEN [c EXCEPT !.crashed = TRUE]
    ELSE LET c1 == IF i \in in.touch /\ c.game.entities[i].bossState = "SLEEP"
                   THEN [c EXCEPT !.calls.sleepTouch = TRUE] ELSE c
         IN IF /\ i \in in.touch
               /\ c.game.player[1].invincibleTimer = 0
            THEN HurtPlayer(c1, cs, "Killed by")
            ELSE c1

\* The contact-damage test at the end of an enemy's update.  calls.sleepTouch
\* records that the test of this tick found the player on a sleeping boss.
ContactDamage(c, i, in, cs) ==
    IF ~HasPlayer(c.game) THEN [c EXCEPT !.crashed = TRUE]
    ELSE LET c1 == IF i \in in.touch /\ c.game.entities[i].bossState = "SLEEP"
                   THEN [c EXCEPT !.calls.sleepTouch = TRUE] ELSE c
         IN IF /\ i \in in.touch
               /\ c.game.player[1].invincibleTimer = 0
               /\ c.game.entities[i].bossState # "SLEEP"
            THEN HurtPlayer(c1, cs, "Killed by")
            ELSE IF i \in in.touch /\ c.game.entities[i].bossState # "SLEEP"
            THEN Shielded(c1)
            ELSE c1

\* The shot of an ordinary enemy or of the mid boss.
EnemyShot(e) ==
    IF e.type = "MID_BOSS" THEN <<2 * Scale, 100>>
    ELSE IF e.type = "TANK" THEN <<2 * Scale, 200>>
    ELSE <<1 * Scale, 200>>

\* The body of game.entities.forEach for the entity at index i.
EntityStep(c, i, in, diff, cs) ==
    LET e == c.game.entities[i]
    IN IF e.type \in Pickups
       THEN IF ~HasPlayer(c.game) THEN [c EXCEPT !.crashed = TRUE]
            ELSE IF i \in in.touch
            THEN LET c1 == [c EXCEPT !.game.entities[i].dead = TRUE]
                     p == c.game.player[1]
                 IN IF e.type = "HEART" /\ p.hp < p.maxHp
                    THEN [c1 EXCEPT !.game.player[1].hp = @ + 1]
                    ELSE IF e.type = "MONEY"
                    THEN [c1 EXCEPT !.game.player[1].money = @ + 1]
                    ELSE c1
            ELSE c
       ELSE IF e.type = "SHOPKEEPER" THEN c
       ELSE IF e.type = "IMPOSSIBLE_FINAL_BOSS" /\ e.isBoss
       THEN ContactDamage(BossStep(c, i, in), i, in, cs)
       ELSE IF ~HasPlayer(c.game) THEN [c EXCEPT !.crashed = TRUE]
       ELSE IF i \in in.fires /\ (~e.isBoss \/ e.type = "MID_BOSS")
       THEN ContactDamage(
                [c EXCEPT !.game.projectiles =
                    Append(@, NewProjectile("enemy", EnemyShot(e)[1], EnemyShot(e)[2], in.flight))],
                i, in, cs)
       ELSE ContactDamage(c, i, in, cs)

RECURSIVE EntityLoop(_, _, _, _, _)
EntityLoop(c, i, in, diff, cs) ==
    IF i > Len(c.game.entities) \/ c.crashed THEN c
    ELSE EntityLoop(EntityStep(c, i, in, diff, cs), i + 1, in, diff, cs)

\* Mutant of ProjectileStep: the lifetime test is p.lifetime < 0.
ProjectileStep_ExpireLate(c, k, in, diff, cs) ==
    LET q == c.game.projectiles[k]
        c1 == [c EXCEPT !.game.projectiles[k].lifetime = @ - 1,
                        !.game.projectiles[k].wallIn = @ - 1]
    IN IF q.lifetime - 1 < 0 \/ q.wallIn - 1 <= 0
       THEN [c1 EXCEPT !.game.projectiles[k].dead = TRUE]
       ELSE IF q.owner = "player"
       THEN IF /\ in.pTarget \in 1..Len(c.game.entities)
               /\ c.pUsed < in.pCount
               /\ Hostile(c.game.entities[in.pTarget])
            THEN damageEnemy([c1 EXCEPT !.game.projectiles[k].dead = TRUE,
                                        !.pUsed = @ + 1],
                             in.pTarget, q.damage, diff, cs)
            ELSE c1
       ELSE IF ~HasPlayer(c.game) THEN [c1 EXCEPT !.crashed = TRUE]
       ELSE IF c.eUsed < in.eHits
       THEN LET c2 == IF c1.game.player[1].invincibleTimer = 0
                      THEN HurtPlayer(c1, cs, "Shot to death")
                      ELSE Shielded(c1)
            IN [c2 EXCEPT !.game.projectiles[k].dead = TRUE, !.eUsed = @ + 1]
       ELSE c1

\* The body of game.projectiles.forEach for the projectile at index k.
\* c.pUsed and c.eUsed count the overlaps of this tick taken so far.
ProjectileStep(c, k, in, diff, cs) ==
    LET q == c.game.projectiles[k]
        c1 == [c EXCEPT !.game.projectiles[k].lifetime = @ - 1,
                        !.game.projectiles[k].wallIn = @ - 1]
    IN IF q.lifetime - 1 <= 0 \/ q.wallIn - 1 <= 0
       THEN [c1 EXCEPT !.game.projectiles[k].dead = TRUE]
       ELSE IF q.owner = "player"
       THEN IF /\ in.pTarget \in 1..Len(c.game.entities)
               /\ c.pUsed < in.pCount
               /\ Hostile(c.game.entities[in.pTarget])
            THEN damageEnemy([c1 EXCEPT !.game.projectiles[k].dead = TRUE,
                                        !.pUsed = @ + 1],
                             in.pTarget, q.damage, diff, cs)
            ELSE c1
       ELSE IF ~HasPlayer(c.game) THEN [c1 EXCEPT !.crashed = TRUE]
       ELSE IF c.eUsed < in.eHits
       THEN LET c2 == IF c1.game.player[1].invincibleTimer = 0
                      THEN HurtPlayer(c1, cs, "Shot to death")
                      ELSE Shielded(c1)
            IN [c2 EXCEPT !.game.projectiles[k].dead = TRUE, !.eUsed = @ + 1]
       ELSE c1

RECURSIVE ProjectileLoop(_, _, _, _, _)
ProjectileLoop(c, k, in, diff, cs) ==
    IF k > Len(c.game.projectiles) \/ c.crashed THEN c
    ELSE ProjectileLoop(ProjectileStep(c, k, in, diff, cs), k + 1, in, diff, cs)

NotDead(x) == ~x.dead

updateEntities(c, in, diff, cs) ==
    LET c1 == [c EXCEPT !.game.entities = SelectSeq(@, NotDead)]
        c2 == EntityLoop(c1, 1, in, diff, cs)
        c3 == ProjectileLoop(c2, 1, in, diff, cs)
    IN IF c3.crashed THEN c3
       ELSE [c3 EXCEPT !.game.projectiles = SelectSeq(@, NotDead)]

----------------------------------------------------------------------------
(* The frame loop *)

\* mapCrumbleProgress is kept as the number n of additions of 0.05 made so
\* far.  In double precision the sum of n additions lies just below n/20
\* from n = 60 on, so the test "progress < rows - 2" still holds at n = 160
\* and the floor of the sum at a multiple of 20 is one less than n/20.
CrumbleLast == 160

CrumbleFloor(n) == IF n >= 60 /\ n % 20 = 0 THEN (n \div 20) - 1 ELSE n \div 20

\* Mutant of BossIntroTick: the cutscene never hands over to normal play.
BossIntroTick_NoEnd(c, in) ==
    IF c.game.mapCrumbleProgress <= CrumbleLast
    THEN LET n == c.game.mapCrumbleProgress + 1
             r == c.game.currentRoom.rows - 2 - CrumbleFloor(n)
         IN [c EXCEPT !.game.mapCrumbleProgress = n,
                      !.game.mapTiles =
                          [y \in 1..Len(@) |-> [x \in 1..Len(@[y]) |->
                              IF /\ y - 1 = r
                                 /\ x - 1 \in 1..(c.game.currentRoom.cols - 2)
                                 /\ @[y][x] = WALL
                                 /\ x - 1 \in in.crumble
                              THEN EMPTY ELSE @[y][x]]]]
    ELSE c

\* The BOSS_INTRO branch of loop; in.crumble: the columns whose draw is
\* below 0.5 in this tick.
BossIntroTick(c, in) ==
    IF c.game.mapCrumbleProgress <= CrumbleLast
    THEN LET n == c.game.mapCrumbleProgress + 1
             r == c.game.currentRoom.rows - 2 - CrumbleFloor(n)
         IN [c EXCEPT !.game.mapCrumbleProgress = n,
                      !.game.mapTiles =
                          [y \in 1..Len(@) |-> [x \in 1..Len(@[y]) |->
                              IF /\ y - 1 = r
                                 /\ x - 1 \in 1..(c.game.currentRoom.cols - 2)
                                 /\ @[y][x] = WALL
                                 /\ x - 1 \in in.crumble
                              THEN EMPTY ELSE @[y][x]]]]
    ELSE setGameState(c, "PLAYING")

\* Observation: at the end of a frame that updates the room, every
\* projectile in game.projectiles has been in the list for one more frame.
Counted(c) ==
    [c EXCEPT !.game.projectiles = [k \in 1..Len(@) |-> [@[k] EXCEPT !.ticks = @ + 1]]]

\* Mutant of LoopUpdate: the EXITING branch also updates the entities and
\* the projectiles.
LoopUpdate_ExitingPlays(c, gs, in, diff, cs) ==
    IF gs = "PLAYING"
    THEN Counted(updateEntities(updatePlayer([c EXCEPT !.calls.sleepTouch = FALSE,
                                                 !.calls.blocked = FALSE,
                                                 !.calls.next = [touch |-> FALSE,
                                                                 active |-> 0],
                                                 !.calls.awakeHits = 0,
                                                 !.calls.frame =
                                                     IF \E i \in 1..Len(c.game.entities) :
                                                           c.game.entities[i].type = "IMPOSSIBLE_FINAL_BOSS"
                                                     THEN 1 - @ ELSE @], in, diff, cs),
                        in, diff, cs))
    ELSE IF gs = "EXITING"
    THEN Counted(updateEntities([c EXCEPT !.game.player =
                                     [k \in 1..Len(@) |-> WalkOff(c.game, @[k])]],
                                in, diff, cs))
    ELSE IF gs = "BOSS_INTRO"
    THEN [BossIntroTick([c EXCEPT !.game.player =
                            [k \in 1..Len(@) |-> Settle(c.game, @[k])]], in)
             EXCEPT !.calls.intro = Min(@ + 1, CrumbleLast + 3)]
    ELSE c

\* The branches of loop, for the game state gs of the render it belongs to:
\* PLAYING, EXITING, BOSS_INTRO, and the other states, in which the frame
\* only draws.  calls.frame alternates with every frame that updates the
\* room of the terminal boss.
LoopUpdate(c, gs, in, diff, cs) ==
    IF gs = "PLAYING"
    THEN Counted(updateEntities(updatePlayer([c EXCEPT !.calls.sleepTouch = FALSE,
                                                 !.calls.blocked = FALSE,
                                                 !.calls.next = [touch |-> FALSE,
                                                                 active |-> 0],
                                                 !.calls.awakeHits = 0,
                                                 !.calls.frame =
                                                     IF \E i \in 1..Len(c.game.entities) :
                                                           c.game.entities[i].type = "IMPOSSIBLE_FINAL_BOSS"
                                                     THEN 1 - @ ELSE @], in, diff, cs),
                        in, diff, cs))
    ELSE IF gs = "EXITING"
    THEN [c EXCEPT !.game.player = [k \in 1..Len(@) |-> WalkOff(c.game, @[k])]]
    ELSE IF gs = "BOSS_INTRO"
    THEN [BossIntroTick([c EXCEPT !.game.player =
                            [k \in 1..Len(@) |-> Settle(c.game, @[k])]], in)
             EXCEPT !.calls.intro = Min(@ + 1, CrumbleLast + 3)]
    ELSE c

\* loop: the update, then the snapshot for the overlay in the frames whose
\* timestamp is a multiple of 10 (in.snap); both only in the three states
\* in which the room is shown.
LoopBody(c, gs, in, diff, cs) ==
    IF gs \in {"PLAYING", "BOSS_INTRO", "EXITING"}
    THEN LET c1 == LoopUpdate(c, gs, in, diff, cs)
         IN IF ~c1.crashed /\ HasPlayer(c1.game) /\ in.snap THEN handleUpdateStats(c1) ELSE c1
    ELSE c

----------------------------------------------------------------------------
(* Lifecycle effect and commit *)

NewPlayer ==
    [hp |-> 6, maxHp |-> 6, money |-> 0, weapon |-> "PISTOL", inventory |-> {"PISTOL"},
     hasArmor |-> FALSE, invincibleTimer |-> 0, attackCooldown |-> 0]

\* useEffect(..., [gameState, difficulty]) of GameCanvas, run for the new
\* game state c.gs and difficulty diff; d: the draws of initLevel(1).
LifecycleEffect(c, diff, d) ==
    IF c.gs = "PLAYING" /\ c.game.level = 1 /\ ~HasPlayer(c.game)
    THEN initLevel([c EXCEPT !.game.player = <<NewPlayer>>], 1, diff, d)
    ELSE IF c.gs = "MENU" THEN [c EXCEPT !.game.player = <<>>]
    ELSE c

Ctx ==
    [game |-> game, gs |-> gameState, save |-> saveData, stats |-> stats, store |-> storage,
     timers |-> timers, calls |-> calls, crashed |-> FALSE, pUsed |-> 0, eUsed |-> 0]

\* The end of an event: React renders with the last values set; when the
\* game state or the difficulty has changed, the lifecycle effect runs and
\* restarts the loop with the callbacks of the new render.
Commit(c, diff, d) ==
    LET changed == c.gs # gameState \/ diff # difficulty
    IN \E c1 \in {IF changed THEN LifecycleEffect(c, diff, d) ELSE c} :
       /\ gameState' = c1.gs
       /\ difficulty' = diff
       /\ saveData' = c1.save
       /\ stats' = c1.stats
       /\ storage' = c1.store
       /\ game' = c1.game
       /\ timers' = c1.timers
       /\ calls' = c1.calls
       /\ loopSave' = IF changed THEN c1.save ELSE loopSave
       /\ loopAlive' = IF changed THEN TRUE ELSE loopAlive /\ ~c.crashed


----------------------------------------------------------------------------
(* Inputs of a tick, as sets of events *)

\* The environment takes a hitpoint only from a player that has at most
\* this many left.
HarmBelow == 1
\* The player leaves the rooms of levels up to this one (second argument of
\* Tick) in the specifications that follow a whole life.
PlayLevels == 1
\* In the room of the terminal boss the player and the projectiles act in
\* the ActWindow ticks before the boss's first and tenth salvo and before it
\* wakes, and in the first SleepWindow ticks of its sleep.
ActWindow == 2
SleepWindow == 40

Ev(k, i, n) == [k |-> k, i |-> i, n |-> n]

HasHazard(g) ==
    \E y \in 1..Len(g.mapTiles) : \E x \in 1..Len(g.mapTiles[y]) : g.mapTiles[y][x] = HAZARD

LiveEntities(g) == SelectSeq(g.entities, NotDead)

\* The player's weapon goes off in a tick that starts in g.
WillShoot(g) ==
    /\ HasPlayer(g)
    /\ g.mouseDown \/ g.keyEnter
    /\ g.player[1].attackCooldown <= 1

\* The projectiles of an owner that are still in flight after the wall test
\* of a tick that starts in g, those fired by the player in it included.
Flying(g, owner) ==
    Cardinality({k \in 1..Len(g.projectiles) :
                    /\ g.projectiles[k].owner = owner
                    /\ g.projectiles[k].lifetime >= 2
                    /\ g.projectiles[k].wallIn >= 2})
    + (IF owner = "player" /\ WillShoot(g) /\ WEAPONS[g.player[1].weapon].type = "RANGED"
       THEN WEAPONS[g.player[1].weapon].count ELSE 0)

\* The ticks in which something overlaps or is pressed, see ActWindow.
Acts(g) ==
    \A i \in 1..Len(g.entities) :
        LET e == g.entities[i]
        IN e.type = "IMPOSSIBLE_FINAL_BOSS" /\ ~e.dead =>
              \/ /\ e.bossState = "ATTACK"
                 /\ e.attackCooldown <= ActWindow
                 /\ e.attackCount \in {0, 9}
              \/ /\ e.bossState = "SLEEP"
                 /\ e.sleepTimer > 300 - SleepWindow \/ e.sleepTimer <= ActWindow

\* The environment may take a hitpoint from the player of g.
Harm(g) == HasPlayer(g) /\ g.player[1].hp <= HarmBelow

\* The events that can happen in a tick that starts in g; the player touches
\* the exit only on levels up to `upto`.
Events(g, upto) ==
    LET live == LiveEntities(g)
        foes == {i \in 1..Len(live) : Hostile(live[i])}
    IN IF ~Acts(g) THEN {}
       ELSE (IF g.level <= upto THEN {Ev("exit", 0, 0)} ELSE {})
            \cup (IF HasHazard(g) /\ Harm(g) THEN {Ev("hazard", 0, 0)} ELSE {})
            \cup (IF HasPlayer(g) /\ WEAPONS[g.player[1].weapon].type = "MELEE"
                  THEN {Ev("melee", i, 0) :
                           i \in {j \in 1..Len(g.entities) : Hostile(g.entities[j])}}
                  ELSE {})
            \cup {Ev("touch", i, 0) : i \in {j \in 1..Len(live) : live[j].type \in Pickups}}
            \cup (IF Harm(g) THEN {Ev("touch", i, 0) : i \in foes} ELSE {})
            \cup {Ev("fires", i, 0) :
                     i \in {j \in foes : live[j].type # "IMPOSSIBLE_FINAL_BOSS"}}
            \cup {Ev("pHit", i, n) :
                     i \in foes, n \in 1..Min(MaxHitsPerTick, Flying(g, "player"))}
            \cup (IF Harm(g) /\ foes # {} THEN {Ev("eHit", 0, 1)} ELSE {})

RECURSIVE UpTo(_, _)
UpTo(S, k) ==
    IF k = 0 THEN {{}}
    ELSE LET T == UpTo(S, k - 1) IN T \cup {t \cup {a} : t \in T, a \in S}

Count(E, k) == Cardinality({e \in E : e.k = k})

\* The event sets of kinds `kinds` drawn for one tick.  The indices of
\* touch, fires and pHit count the entities left by the dead filter, so they
\* are not drawn together with a melee hit, which may kill before it; the
\* player stands on a hazard and in the exit only when the hazard is the
\* cell next to the exit.
EventSets(g, kinds, upto) ==
    {E \in UpTo({e \in Events(g, upto) : e.k \in kinds}, MaxEventsPerTick) :
        /\ Count(E, "pHit") <= 1
        /\ Count(E, "melee") > 0 =>
              Count(E, "touch") + Count(E, "fires") + Count(E, "pHit") = 0
        /\ Count(E, "hazard") > 0 /\ Count(E, "exit") > 0 =>
              getTile(g, Cols - 3, Rows - 2) = HAZARD}

\* The input record of updatePlayer and updateEntities from an event set.
Input(E, flight, crumble) ==
    [fell |-> FALSE,
     hazard |-> Count(E, "hazard") > 0,
     touchExit |-> Count(E, "exit") > 0,
     melee |-> {e.i : e \in {x \in E : x.k = "melee"}},
     touch |-> {e.i : e \in {x \in E : x.k = "touch"}},
     fires |-> {e.i : e \in {x \in E : x.k = "fires"}},
     pTarget |-> IF Count(E, "pHit") > 0 THEN (CHOOSE e \in E : e.k = "pHit").i ELSE 0,
     pCount |-> IF Count(E, "pHit") > 0 THEN (CHOOSE e \in E : e.k = "pHit").n ELSE 0,
     eHits |-> IF Count(E, "eHit") > 0 THEN (CHOOSE e \in E : e.k = "eHit").n ELSE 0,
     flight |-> flight,
     crumble |-> crumble,
     snap |-> FALSE]

\* A projectile either enters a wall in the tick it is fired or flies for
\* MaxFlight ticks.
FlightDraws == {1, MaxFlight}

\* The draws of the crumble loop of one BOSS_INTRO tick: every column below
\* 0.5, or none.
CrumbleDraws == {{}, 1..(Cols - 2)}

\* The row the crumble loop works on in the next BOSS_INTRO tick holds a
\* wall cell inside the border.
CrumbleRowHasWall(g) ==
    LET r == g.currentRoom.rows - 2 - CrumbleFloor(g.mapCrumbleProgress + 1)
    IN /\ g.mapCrumbleProgress <= CrumbleLast
       /\ \E x \in 1..(g.currentRoom.cols - 2) : getTile(g, x, r) = WALL

\* The draws of initLevel for a combat room: the 20 scatter segments (here
\* 20 times the same draw), the hazard columns, the type draws of the
\* enemies (here the same for all), the heart and the number of coins.
SegChoices == {[x |-> 2, y |-> 7, len |-> 2, t |-> WALL]}

TypeChoices == {[arch |-> FALSE, tank |-> FALSE], [arch |-> TRUE, tank |-> FALSE],
                [arch |-> FALSE, tank |-> TRUE]}

\* The first sample of the spawn cell is the empty cell (3, 3).
FirstSample == [lead |-> 0, a |-> <<3, 3>>, b |-> <<3, 3>>]

RoomDraws ==
    {[segs |-> [j \in 1..20 |-> sg], hazards |-> hz, types |-> [i \in 1..6 |-> ty],
      heart |-> h, coins |-> k, samples |-> FirstSample] :
        sg \in SegChoices, hz \in {{}, {Cols - 3}}, ty \in TypeChoices,
        h \in BOOLEAN, k \in {0, 1}}

\* The draws of the rooms that are played in: no pickups, a hazard next to
\* the exit.
PlayDraws == {d \in RoomDraws : ~d.heart /\ d.coins = 0 /\ ~d.types[1].tank
                                   /\ ~d.types[1].arch /\ d.hazards # {}}

AnyDraw == CHOOSE d \in RoomDraws : TRUE

----------------------------------------------------------------------------
(* Actions *)

NoNext == [touch |-> FALSE, active |-> 0]

NoSpawn == [attempts |-> 0, sx |-> 0, sy |-> 0, x |-> 0, y |-> 0, fallback |-> FALSE]

NoCalls ==
    [gameOver |-> 0, reason |-> "", room |-> 0, victory |-> 0, shopOpen |-> 0,
     unlock |-> 0, unlockWrites |-> 0, load |-> [level |-> 0, diff |-> "NORMAL", n |-> 0],
     awakeHits |-> 0, asleepHits |-> 0, salvos |-> 0, sleepTouch |-> FALSE, hurtBy |-> "",
     frame |-> 0, blocked |-> FALSE, buy |-> [id |-> "", n |-> 0],
     next |-> NoNext, shots |-> 0, spawn |-> NoSpawn, intro |-> 0]

DefaultSave == [impossibleUnlocked |-> FALSE, bestRoom |-> 0]

\* What localStorage holds when the app is mounted.
StoredSaves == {<<>>, <<[impossibleUnlocked |-> TRUE, bestRoom |-> 0]>>}

\* gameRef.current as created by useRef.
MountGame ==
    [player |-> <<>>, entities |-> <<>>, projectiles |-> <<>>, mapTiles |-> <<>>,
     level |-> 1, currentRoom |-> [rows |-> 0, cols |-> 0],
     mapCrumbleProgress |-> 0, victoryExiting |-> FALSE,
     mouseDown |-> FALSE, keyEnter |-> FALSE]

\* The app after mounting and the load effect.
Mount ==
    /\ gameState = "MENU"
    /\ difficulty = "NORMAL"
    /\ storage \in StoredSaves
    /\ saveData = IF storage = <<>> THEN DefaultSave ELSE storage[1]
    /\ stats = InitialStats
    /\ game = MountGame
    /\ timers = <<>>
    /\ loopSave = DefaultSave
    /\ loopAlive = TRUE
    /\ calls = NoCalls

\* handleStartGame(diff), from a button of the menu (the IMPOSSIBLE button
\* is disabled until it is unlocked).  The call counters start anew.
StartGame(diff, d) ==
    /\ gameState = "MENU"
    /\ diff = "IMPOSSIBLE" => saveData.impossibleUnlocked
    /\ Commit([Ctx EXCEPT !.gs = "PLAYING", !.calls = [NoCalls EXCEPT !.load = calls.load]],
              diff, d)

\* onBackToMenu, from the game-over and victory screens.
BackToMenu ==
    /\ gameState \in {"GAMEOVER", "VICTORY"}
    /\ Commit(setGameState(Ctx, "MENU"), difficulty, AnyDraw)

\* onCloseShop, from the shop screen.
CloseShop ==
    /\ gameState = "SHOP"
    /\ Commit(setGameState(Ctx, "PLAYING"), difficulty, AnyDraw)

\* Mutant of Purchase: the max-health item raises the hitpoints only.
Purchase_HpOnly(g, id) ==
    LET item == SHOP_ITEMS[id]
        p == g.player[1]
    IN IF p.money >= item.cost
       THEN [g EXCEPT !.player[1] =
               LET p1 == [p EXCEPT !.money = @ - item.cost]
               IN CASE item.type = "STAT" -> [p1 EXCEPT !.hp = @ + 1]
                    [] item.arg = "HEAL" -> [p1 EXCEPT !.hp = p1.maxHp]
                    [] item.arg = "ARMOR" -> [p1 EXCEPT !.hasArmor = TRUE]
                    [] OTHER -> [p1 EXCEPT !.weapon = item.arg,
                                           !.inventory = @ \cup {item.arg}]]
       ELSE g

\* Mutant of Purchase: the item is sold whatever the player's money.
Purchase_OnCredit(g, id) ==
    LET item == SHOP_ITEMS[id]
        p == g.player[1]
    IN [g EXCEPT !.player[1] =
          LET p1 == [p EXCEPT !.money = @ - item.cost]
          IN CASE item.type = "STAT" -> [p1 EXCEPT !.maxHp = @ + 1, !.hp = @ + 1]
               [] item.arg = "HEAL" -> [p1 EXCEPT !.hp = p1.maxHp]
               [] item.arg = "ARMOR" -> [p1 EXCEPT !.hasArmor = TRUE]
               [] OTHER -> [p1 EXCEPT !.weapon = item.arg,
                                      !.inventory = @ \cup {item.arg}]]

\* The purchase effect of GameCanvas for the item id.
Purchase(g, id) ==
    LET item == SHOP_ITEMS[id]
        p == g.player[1]
    IN IF p.money >= item.cost
       THEN [g EXCEPT !.player[1] =
               LET p1 == [p EXCEPT !.money = @ - item.cost]
               IN CASE item.type = "STAT" -> [p1 EXCEPT !.maxHp = @ + 1, !.hp = @ + 1]
                    [] item.arg = "HEAL" -> [p1 EXCEPT !.hp = p1.maxHp]
                    [] item.arg = "ARMOR" -> [p1 EXCEPT !.hasArmor = TRUE]
                    [] OTHER -> [p1 EXCEPT !.weapon = item.arg,
                                           !.inventory = @ \cup {item.arg}]]
       ELSE g

\* The BUY button of the item: disabled={!canAfford || isEquipped}, both
\* computed from the stats snapshot.
CanClickBuy(id) ==
    LET item == SHOP_ITEMS[id]
    IN /\ stats.money >= item.cost
       /\ ~(item.type = "WEAPON" /\ stats.weapon = item.arg)

\* handleShopBuy(id), from an enabled button of the shop screen, and the
\* purchase effect it triggers.  calls.buy records the request.
ShopBuy(id) ==
    /\ gameState = "SHOP"
    /\ CanClickBuy(id)
    /\ Commit([Ctx EXCEPT !.game = IF HasPlayer(game) THEN Purchase(game, id) ELSE game,
                          !.calls.buy = [id |-> id, n |-> 1 - @.n]],
              difficulty, AnyDraw)

\* handleMouseDown / handleMouseUp.
MouseDown ==
    /\ ~game.mouseDown
    /\ Acts(game)
    /\ Commit([Ctx EXCEPT !.game.mouseDown = TRUE], difficulty, AnyDraw)

MouseUp ==
    /\ game.mouseDown
    /\ Commit([Ctx EXCEPT !.game.mouseDown = FALSE], difficulty, AnyDraw)

\* handleKeyDown and handleKeyUp for the Enter key.
KeyDown ==
    /\ ~game.keyEnter
    /\ Acts(game)
    /\ Commit([Ctx EXCEPT !.game.keyEnter = TRUE, !.calls.shots = 0], difficulty, AnyDraw)

KeyUp ==
    /\ game.keyEnter
    /\ Commit([Ctx EXCEPT !.game.keyEnter = FALSE, !.calls.shots = 0], difficulty, AnyDraw)

\* The pending setTimeout callback k runs; d: the draws of its initLevel.
TimerFire(k, d) ==
    /\ k \in 1..Len(timers)
    /\ LET t == timers[k]
           c == [Ctx EXCEPT !.timers = SubSeq(timers, 1, k - 1) \o SubSeq(timers, k + 1, Len(timers))]
       IN Commit(IF t.kind = "level"
                 THEN initLevel(setGameState(c, "PLAYING"), c.game.level, t.diff, d)
                 ELSE handleVictory(c),
                 difficulty, d)

\* A projectile is fired in a tick that starts in g with events E: by the
\* player, by an enemy of E, or by the terminal boss.
Fires(g, E) ==
    \/ WillShoot(g)
    \/ Count(E, "fires") > 0
    \/ \E i \in 1..Len(g.entities) :
          g.entities[i].bossState = "ATTACK" /\ g.entities[i].attackCooldown <= 1

\* One animation frame, with events of the given kinds.  The draws that
\* nothing reads in this tick are fixed.
Tick(kinds, upto) ==
    /\ loopAlive
    /\ gameState \in {"PLAYING", "BOSS_INTRO", "EXITING"}
    /\ \E E \in (IF gameState = "PLAYING" THEN EventSets(game, kinds, upto) ELSE {{}}) :
       \E f \in (IF gameState = "PLAYING" /\ Fires(game, E) THEN FlightDraws ELSE {1}) :
       \E cr \in (IF gameState = "BOSS_INTRO" /\ CrumbleRowHasWall(game)
                  THEN CrumbleDraws ELSE {{}}) :
       \E c \in {LoopBody(Ctx, gameState, Input(E, f, cr), difficulty, loopSave)} :
          Commit(c, difficulty, AnyDraw)

AllKinds == {"exit", "hazard", "melee", "touch", "fires", "pHit", "eHit"}

----------------------------------------------------------------------------
(* States in the middle of a run *)

\* The save data of a run on diff: IMPOSSIBLE can only be started when the
\* stored save has it unlocked.
SaveFor(diff) == [impossibleUnlocked |-> (diff = "IMPOSSIBLE"), bestRoom |-> 0]

\* The money of a player who has killed every enemy of the rooms 1..level
\* and picked up and bought nothing.
RECURSIVE Earned(_, _)
Earned(level, diff) ==
    IF level = 0 THEN 0
    ELSE Earned(level - 1, diff)
         + (IF RoomKind(level, diff) = "COMBAT" THEN 5 * EnemyCount(level, diff) ELSE 0)

\* The event context right after initLevel(level) has loaded a room for the
\* player p.
InRoom(level, diff, p, d) ==
    initLevel([game |-> [MountGame EXCEPT !.player = <<p>>, !.level = level],
               gs |-> "PLAYING", save |-> SaveFor(diff), stats |-> InitialStats,
               store |-> IF diff = "IMPOSSIBLE" THEN <<SaveFor(diff)>> ELSE <<>>,
               timers |-> <<>>, calls |-> NoCalls, crashed |-> FALSE,
               pUsed |-> 0, eUsed |-> 0],
              level, diff, d)

IsPassive(e) == ~Hostile(e)

\* The room of c after every enemy in it has been killed and removed.
Cleared(c, level, diff) ==
    [c EXCEPT !.game.entities = SelectSeq(@, IsPassive),
              !.game.player[1].money = Earned(level, diff)]

\* The state of the app is that of the context c of a run on diff.
At(c, diff) ==
    /\ gameState = c.gs
    /\ difficulty = diff
    /\ saveData = c.save
    /\ stats = c.stats
    /\ storage = c.store
    /\ game = c.game
    /\ timers = c.timers
    /\ loopSave = c.save
    /\ loopAlive = TRUE
    /\ calls = c.calls

----------------------------------------------------------------------------
(* Specification Spec: the life of a player.  From the mounted app, or from *)
(* the first room of an EASY run in which the player has one hitpoint left. *)

LifeDiffs == {"EASY", "NORMAL"}

Init ==
    \/ Mount
    \/ \E d \in PlayDraws : At(InRoom(1, "EASY", [NewPlayer EXCEPT !.hp = 1], d), "EASY")

Next ==
    \/ \E diff \in LifeDiffs, d \in PlayDraws : StartGame(diff, d)
    \/ BackToMenu
    \/ MouseDown
    \/ MouseUp
    \/ \E k \in 1..Len(timers), d \in PlayDraws : TimerFire(k, d)
    \/ Tick(AllKinds, PlayLevels)

Spec == Init /\ [][Next]_vars

----------------------------------------------------------------------------
(* Properties of Spec *)

\* The hitpoints of the player of g (0 when there is none).
Hp(g) == IF HasPlayer(g) THEN g.player[1].hp ELSE 0

\* The step continues a run whose game-over callback has been invoked.
RunIsOver == calls.gameOver >= 1 /\ calls'.gameOver >= 1

\* C1: a step in which the player's hitpoints reach 0 invokes the game-over
\* callback for the first and only time of the run, with the level of the
\* room and a cause; and once it has been invoked, no step of the same run
\* invokes it again or changes the player.
C1_GameOverOnceAndFinal ==
    [][/\ (HasPlayer(game) /\ HasPlayer(game') /\ Hp(game) > 0 /\ Hp(game') <= 0) =>
              /\ calls'.gameOver = 1
              /\ calls'.room \in {game.level, game'.level}
              /\ calls'.reason # ""
       /\ RunIsOver =>
              /\ calls'.gameOver = calls.gameOver
              /\ HasPlayer(game) /\ HasPlayer(game') => game'.player = game.player]_vars

\* C2: entering PLAYING from MENU creates a player, entering MENU removes
\* it, and there is a player in every state in which PLAYING ticks run.
C2_OnePlayerWhilePlaying ==
    [][/\ (gameState = "MENU" /\ gameState' = "PLAYING") => HasPlayer(game')
       /\ gameState' = "MENU" => ~HasPlayer(game')
       /\ gameState' = "PLAYING" => HasPlayer(game')]_vars

----------------------------------------------------------------------------
(* Specification SpecRooms: the rooms.  From the mounted app, or from a     *)
(* room of level 1..9 in which every enemy has been killed; the player only *)
(* walks to the exit.                                                       *)

InitRooms ==
    \/ Mount
    \/ \E level \in 1..(TerminalLevel - 1), diff \in Difficulties :
          At(Cleared(InRoom(level, diff, NewPlayer, AnyDraw), level, diff), diff)

NextRooms ==
    \/ \E diff \in Difficulties, d \in RoomDraws : StartGame(diff, d)
    \/ CloseShop
    \/ \E k \in 1..Len(timers), d \in RoomDraws : TimerFire(k, d)
    \/ Tick({"exit"}, TerminalLevel)

SpecRooms == InitRooms /\ [][NextRooms]_vars

\* What a room holds.
HasType(g, type) == \E i \in 1..Len(g.entities) : g.entities[i].type = type

NumType(g, type) == Cardinality({i \in 1..Len(g.entities) : g.entities[i].type = type})

HasExitTile(g) == getTile(g, Cols - 2, Rows - 2) = EXIT

\* The three kinds of room, by what is in them.
IsBossRoom(g) ==
    HasType(g, "IMPOSSIBLE_FINAL_BOSS") /\ ~HasType(g, "SHOPKEEPER") /\ ~HasExitTile(g)

IsShopRoom(g) ==
    HasType(g, "SHOPKEEPER") /\ ~HasType(g, "IMPOSSIBLE_FINAL_BOSS") /\ ~HasExitTile(g)
    /\ \A i \in 1..Len(g.entities) : ~Hostile(g.entities[i])

IsCombatRoom(g) ==
    HasExitTile(g) /\ ~HasType(g, "SHOPKEEPER") /\ ~HasType(g, "IMPOSSIBLE_FINAL_BOSS")
    /\ \E i \in 1..Len(g.entities) : Hostile(g.entities[i])

\* The step has called initLevel.
Loads == calls'.load # calls.load

\* C3: on NORMAL, the rooms loaded for the levels 1 to 9 are combat rooms
\* except the shop of level 5, the room loaded for level 10 holds exactly one
\* MID_BOSS, and victory is only reached from level 10.
C3_NormalRunRooms ==
    [][/\ (Loads /\ calls'.load.diff = "NORMAL") =>
              LET l == calls'.load.level
              IN /\ l \in (1..9) \ {5} => IsCombatRoom(game')
                 /\ l = 5 => IsShopRoom(game')
                 /\ l = TerminalLevel => NumType(game', "MID_BOSS") = 1
       /\ (difficulty = "NORMAL" /\ ~game.victoryExiting /\ game'.victoryExiting) =>
              game.level = TerminalLevel]_vars

----------------------------------------------------------------------------
(* Specification SpecBoss: the room of the terminal boss, from the moment   *)
(* initLevel(10) has loaded it on IMPOSSIBLE for a player with one hitpoint *)
(* left, who carries the pistol or has bought the shotgun in the shop of    *)
(* level 5.                                                                 *)

BossPlayers ==
    {[NewPlayer EXCEPT !.hp = 1, !.money = Earned(9, "IMPOSSIBLE")],
     [NewPlayer EXCEPT !.hp = 1, !.money = Earned(9, "IMPOSSIBLE") - SHOP_ITEMS.shotgun.cost,
                       !.weapon = "SHOTGUN", !.inventory = {"PISTOL", "SHOTGUN"}]}

InitBoss ==
    \E p \in BossPlayers : At(InRoom(TerminalLevel, "IMPOSSIBLE", p, AnyDraw), "IMPOSSIBLE")

BossKinds == {"exit", "touch", "pHit", "eHit"}

BossTick == Tick(BossKinds, TerminalLevel)

VictoryTimer == \E k \in 1..Len(timers) : TimerFire(k, AnyDraw)

NextBoss ==
    \/ MouseDown
    \/ MouseUp
    \/ VictoryTimer
    \/ BossTick

SpecBoss == InitBoss /\ [][NextBoss]_vars

----------------------------------------------------------------------------
(* Properties of SpecBoss *)

HasBoss(g) == HasType(g, "IMPOSSIBLE_FINAL_BOSS")

TheBoss(g) ==
    g.entities[CHOOSE i \in 1..Len(g.entities) : g.entities[i].type = "IMPOSSIBLE_FINAL_BOSS"]

\* C5: a step without a damageEnemy call made while the terminal boss was
\* asleep leaves its hitpoints and its dead flag as they were, whatever
\* calls were made on it while it was in ATTACK.
C5_AwakeBossTakesNoDamage ==
    [][(HasBoss(game) /\ HasBoss(game') /\ calls'.asleepHits = calls.asleepHits) =>
          /\ TheBoss(game').hp = TheBoss(game).hp
          /\ TheBoss(game').dead = TheBoss(game).dead]_vars

\* C5 witness: damageEnemy has been called on the boss in ATTACK in the last
\* tick, and the boss has all its hitpoints.
C5_HitWhileAwake ==
    /\ HasBoss(game)
    /\ calls.awakeHits > 0
    /\ calls.asleepHits = 0
    /\ TheBoss(game).hp = TheBoss(game).maxHp

\* C6: the terminal boss is in ATTACK with attack counter 0 when its room is
\* loaded; in ATTACK it has fired fewer than 10 salvos since it was created
\* or woke, and when it sleeps it has fired exactly 10.
C6_SleepAfterTenSalvos ==
    HasBoss(game) =>
        LET b == TheBoss(game)
        IN /\ gameState = "BOSS_INTRO" =>
                 b.bossState = "ATTACK" /\ b.attackCount = 0 /\ calls.salvos = 0
           /\ b.bossState = "ATTACK" => calls.salvos < 10
           /\ b.bossState = "SLEEP" => calls.salvos = 10
           /\ calls.salvos <= 10

\* C6 witness: the boss has just fallen asleep.
C6_FellAsleep ==
    /\ HasBoss(game)
    /\ TheBoss(game).bossState = "SLEEP"
    /\ TheBoss(game).sleepTimer = 300
    /\ calls.salvos = 10

\* C7: after N <= 3 damageEnemy calls on the sleeping boss it has lost
\* exactly N hitpoints, whatever the weapon; it is dead exactly from the
\* third call on, and then the victory callback is scheduled or has run.
C7_SleepHitsTakeOne ==
    HasBoss(game) =>
        LET b == TheBoss(game)
        IN /\ calls.asleepHits <= 3 => b.hp = b.maxHp - calls.asleepHits * Scale
           /\ calls.asleepHits < 3 => ~b.dead
           /\ calls.asleepHits >= 3 =>
                 /\ b.dead
                 /\ \/ \E k \in 1..Len(timers) : timers[k].kind = "victory"
                    \/ calls.victory > 0

\* C7 witness: the third call has been made, with the pistol.
C7_ThirdHit ==
    /\ HasBoss(game)
    /\ HasPlayer(game)
    /\ game.player[1].weapon = "PISTOL"
    /\ calls.asleepHits = 3
    /\ TheBoss(game).hp = 0

\* C9: in a tick whose contact test finds the player on the sleeping boss,
\* the contact takes no hitpoint and starts no invincibility window: if the
\* player loses a hitpoint in that tick, a projectile took it.
C9_NoContactDamageAsleep ==
    [][(calls'.sleepTouch /\ HasPlayer(game) /\ HasPlayer(game')
        /\ \/ game'.player[1].hp < game.player[1].hp
           \/ game'.player[1].invincibleTimer > game.player[1].invincibleTimer) =>
          calls'.hurtBy = "Shot to death"]_vars

\* C9 witness: the player was on the boss in the tick in which it fell
\* asleep and is unhurt.
C9_TouchedAsleep ==
    /\ HasBoss(game)
    /\ calls.sleepTouch
    /\ TheBoss(game).sleepTimer = 300
    /\ Hp(game) = 1
    /\ game.player[1].invincibleTimer = 0

RightColumnCleared(g) == \A r \in 0..(Rows - 1) : getTile(g, Cols - 1, r) = EMPTY

\* C10: the step in which the hitpoints of the terminal boss reach 0 sets
\* victoryExiting, clears the right border column, schedules the victory
\* callback and leaves the game in EXITING; and the level never changes in
\* the boss room.
C10_BossDeathStartsVictoryExit ==
    [][/\ (HasBoss(game) /\ HasBoss(game')
          /\ TheBoss(game).hp > 0 /\ TheBoss(game').hp <= 0) =>
             /\ game'.victoryExiting
             /\ RightColumnCleared(game')
             /\ \E k \in 1..Len(timers') : timers'[k].kind = "victory"
             /\ gameState' = "EXITING"
       /\ game'.level = game.level]_vars

\* The fight goes on: the boss is alive and the frame loop updates the room.
Fighting ==
    /\ HasBoss(game)
    /\ ~TheBoss(game).dead
    /\ gameState = "PLAYING"
    /\ loopAlive

\* The frames the boss b still needs to leave its phase, at most.
FramesLeft(b) ==
    IF b.bossState = "SLEEP" THEN b.sleepTimer
    ELSE (10 - b.attackCount) * 90 + b.attackCooldown

\* C8: the boss is only ever in ATTACK or SLEEP.  It leaves SLEEP only for
\* ATTACK, in the frame in which its sleep timer (at most 300) runs out, and
\* then its attack counter is 0.  Every frame that updates the room while
\* the boss is alive either changes its phase or brings the change nearer,
\* so that ATTACK leads to SLEEP and SLEEP to ATTACK as long as frames go on.
C8_PhasesAlternate ==
    [][(HasBoss(game) /\ HasBoss(game')) =>
          LET b == TheBoss(game)
              b1 == TheBoss(game')
          IN /\ b1.bossState \in {"ATTACK", "SLEEP"}
             /\ b1.bossState = "SLEEP" => b1.sleepTimer \in 1..300
             /\ (b.bossState = "SLEEP" /\ b1.bossState # "SLEEP") =>
                   /\ b.sleepTimer = 1
                   /\ b1.bossState = "ATTACK"
                   /\ b1.attackCount = 0
             /\ (b.bossState = "ATTACK" /\ b1.bossState # "ATTACK") =>
                   b1.bossState = "SLEEP" /\ b1.sleepTimer = 300
             /\ (Fighting /\ calls'.frame # calls.frame) =>
                   \/ b1.bossState # b.bossState
                   \/ FramesLeft(b1) < FramesLeft(b) /\ FramesLeft(b1) > 0
             /\ calls'.frame = calls.frame => b1 = b]_vars

\* C8 witness: the boss, hit in its sleep and not killed, is in ATTACK again.
C8_WokeUp ==
    /\ Fighting
    /\ TheBoss(game).bossState = "ATTACK"
    /\ calls.asleepHits \in 1..2
    /\ TheBoss(game).attackCount = 0

----------------------------------------------------------------------------
(* Ticks with other restrictions than those of Events: the exit is touched  *)
(* in the rooms of the levels `exits`, anybody can be harmed if harmAll     *)
(* (otherwise the players of Harm), and an enemy projectile can reach the   *)
(* player after the enemy that fired it has died.                           *)

RunEvents(g, exits, harmAll) ==
    LET live == LiveEntities(g)
        foes == {i \in 1..Len(live) : Hostile(live[i])}
        hurt == harmAll \/ Harm(g)
    IN (IF g.level \in exits THEN {Ev("exit", 0, 0)} ELSE {})
       \cup (IF HasHazard(g) /\ hurt THEN {Ev("hazard", 0, 0)} ELSE {})
       \cup (IF HasPlayer(g) /\ WEAPONS[g.player[1].weapon].type = "MELEE"
             THEN {Ev("melee", i, 0) :
                      i \in {j \in 1..Len(g.entities) : Hostile(g.entities[j])}}
             ELSE {})
       \cup {Ev("touch", i, 0) : i \in {j \in 1..Len(live) : live[j].type \in Pickups}}
       \cup (IF hurt THEN {Ev("touch", i, 0) : i \in foes} ELSE {})
       \cup {Ev("fires", i, 0) : i \in foes}
       \cup {Ev("pHit", i, n) :
                i \in foes, n \in 1..Min(MaxHitsPerTick, Flying(g, "player"))}
       \cup (IF hurt /\ (foes # {} \/ Flying(g, "enemy") > 0)
             THEN {Ev("eHit", 0, 1)} ELSE {})

\* The event sets of one tick, with the exclusions of EventSets.
RunEventSets(g, kinds, exits, harmAll) ==
    {E \in UpTo({e \in RunEvents(g, exits, harmAll) : e.k \in kinds}, MaxEventsPerTick) :
        /\ Count(E, "pHit") <= 1
        /\ Count(E, "melee") > 0 =>
              Count(E, "touch") + Count(E, "fires") + Count(E, "pHit") = 0
        /\ Count(E, "hazard") > 0 /\ Count(E, "exit") > 0 =>
              getTile(g, Cols - 3, Rows - 2) = HAZARD}

\* One animation frame with events of the given kinds; snaps: whether the
\* timestamp of the frame can be a multiple of 10.
RunTick(kinds, snaps, exits, harmAll) ==
    /\ loopAlive
    /\ gameState \in {"PLAYING", "BOSS_INTRO", "EXITING"}
    /\ \E E \in (IF gameState = "PLAYING" THEN RunEventSets(game, kinds, exits, harmAll)
                 ELSE {{}}) :
       \E f \in (IF gameState = "PLAYING" /\ Fires(game, E) THEN FlightDraws ELSE {1}) :
       \E sn \in snaps :
       \E c \in {LoopBody(Ctx, gameState, [Input(E, f, {}) EXCEPT !.snap = sn],
                          difficulty, loopSave)} :
          Commit(c, difficulty, AnyDraw)

\* The room of c after the player has killed all but the first `keep` of its
\* enemies, with the bounty of the others.
Thinned(c, keep) ==
    LET foes == {i \in 1..Len(c.game.entities) : Hostile(c.game.entities[i])}
        gone == {i \in foes : Cardinality({j \in foes : j <= i}) > keep}
    IN [c EXCEPT !.game.entities =
                     [k \in 1..(Len(@) - Cardinality(gone)) |->
                         @[CHOOSE i \in (1..Len(@)) \ gone :
                              Cardinality({j \in (1..Len(@)) \ gone : j <= i}) = k]],
                 !.game.player[1].money = @ + 5 * Cardinality(gone)]

----------------------------------------------------------------------------
(* Specification SpecHurt: a player with two hitpoints and one enemy, in    *)
(* the first room of an EASY run (a NORMAL enemy) and in the room of level  *)
(* 7 of a HARD run (a TANK); hazards, contacts and enemy projectiles.       *)

HurtDraws == {d \in RoomDraws : ~d.heart /\ d.coins = 0 /\ d.hazards # {}}

HurtPlayers(level, diff) ==
    [NewPlayer EXCEPT !.hp = 2, !.money = Earned(level - 1, diff)]

InitHurt ==
    \/ \E d \in {x \in HurtDraws : ~x.types[1].tank /\ ~x.types[1].arch} :
          At(InRoom(1, "EASY", HurtPlayers(1, "EASY"), d), "EASY")
    \/ \E d \in {x \in HurtDraws : x.types[1].tank} :
          At(Thinned(InRoom(7, "HARD", HurtPlayers(7, "HARD"), d), 1), "HARD")

HurtKinds == {"hazard", "touch", "fires", "eHit"}

HurtTick == RunTick(HurtKinds, {FALSE}, {}, TRUE)

NextHurt == HurtTick \/ BackToMenu

SpecHurt == InitHurt /\ [][NextHurt]_vars

\* C11: inside the invincibility window no hazard, contact or projectile
\* takes a hitpoint; a hit starts the window of 60 frames; and the sources of
\* one tick take one hitpoint together: when one of them was turned away in
\* a tick that began outside the window, another one had just hit.
C11_OneLossPerWindow ==
    [][(HasPlayer(game) /\ HasPlayer(game')) =>
          LET p == game.player[1]
              q == game'.player[1]
          IN /\ p.invincibleTimer >= 2 =>
                   q.hp >= p.hp /\ q.invincibleTimer = p.invincibleTimer - 1
             /\ q.hp < p.hp => q.hp = p.hp - 1 /\ q.invincibleTimer = 60
             /\ (calls'.blocked /\ p.invincibleTimer <= 1) =>
                   q.hp = p.hp - 1 /\ q.invincibleTimer = 60]_vars

\* C11 witness: two sources found the player in one tick; the first took a
\* hitpoint and the second was turned away.
C11_TwoSourcesOneLoss ==
    /\ gameState = "PLAYING"
    /\ HasPlayer(game)
    /\ calls.blocked
    /\ game.player[1].invincibleTimer = 60
    /\ game.player[1].hp = 1

\* C20: a hit by a hazard, by the contact of an enemy or by an enemy
\* projectile takes exactly one hitpoint, whatever the damage value of the
\* enemy or of the projectile and whatever the difficulty: the step in which
\* a window begins takes one hitpoint and no step takes more.
C20_EveryHitTakesOne ==
    [][(HasPlayer(game) /\ HasPlayer(game')) =>
          LET p == game.player[1]
              q == game'.player[1]
          IN /\ q.hp \in {p.hp, p.hp - 1}
             /\ q.invincibleTimer = 60 <=> q.hp = p.hp - 1
             /\ q.hp = p.hp - 1 =>
                   calls'.hurtBy \in {"Impaled on spikes", "Killed by", "Shot to death"}]_vars

\* C20 witness: the contact of a TANK of a HARD run, whose damage value is 3,
\* has taken one of the player's two hitpoints.
C20_HitByTank ==
    /\ HasPlayer(game)
    /\ difficulty = "HARD"
    /\ calls.hurtBy = "Killed by"
    /\ \E i \in 1..Len(game.entities) :
          game.entities[i].type = "TANK" /\ game.entities[i].damage = 3 * Scale
    /\ game.player[1].invincibleTimer = 60
    /\ game.player[1].hp = 1

----------------------------------------------------------------------------
(* Specification SpecShop: the way through the shops.  From the cleared     *)
(* room of level 4 of an EASY run, with a heart, a coin and a hazard in it  *)
(* and a player who has one, two or all six hitpoints, and from the cleared *)
(* room of level 9 of a HARD run; the player walks, picks up, buys and      *)
(* leaves the shop; the run is followed up to the room of the shop of level *)
(* 5 and through the shop of level 10 to the victory.                       *)

ShopDraws == {d \in RoomDraws : d.heart /\ d.coins = 1 /\ d.hazards # {}
                                   /\ ~d.types[1].tank /\ ~d.types[1].arch}

PlainDraws == {d \in RoomDraws : ~d.heart /\ d.coins = 0 /\ d.hazards = {}
                                    /\ ~d.types[1].tank /\ ~d.types[1].arch}

InitShop ==
    \/ \E d \in ShopDraws, h \in {1, 2, 6} :
          At(Cleared(InRoom(4, "EASY", [NewPlayer EXCEPT !.hp = h], d), 4, "EASY"), "EASY")
    \/ \E d \in PlainDraws :
          At(Cleared(InRoom(9, "HARD", NewPlayer, d), 9, "HARD"), "HARD")

ShopKinds == {"exit", "touch", "hazard"}

ShopExits == {4, 9, 10}

ShopTick == RunTick(ShopKinds, BOOLEAN, ShopExits, FALSE)

ShopTimer == \E k \in 1..Len(timers), d \in PlainDraws : TimerFire(k, d)

BuyItem == \E id \in DOMAIN SHOP_ITEMS : ShopBuy(id)

NextShop ==
    \/ ShopTick
    \/ ShopTimer
    \/ BuyItem
    \/ CloseShop

SpecShop == InitShop /\ [][NextShop]_vars

\* C12: the player never has more hitpoints than max hitpoints.
C12_HpAtMostMaxHp ==
    HasPlayer(game) => game.player[1].hp <= game.player[1].maxHp

\* C12 witness: a player of the EASY run has spent 30 on the max-health
\* item and the full heal and has seven of seven hitpoints.
C12_HealedToRaisedMax ==
    /\ HasPlayer(game)
    /\ difficulty = "EASY"
    /\ game.player[1].money <= Earned(4, "EASY") + 1 - 30
    /\ game.player[1].maxHp = 7
    /\ game.player[1].hp = 7

----------------------------------------------------------------------------
(* The exit *)

\* A step in which nextLevel has run: the level counter has gone up, or the
\* victory exit has begun in a room without the terminal boss.
Advanced ==
    \/ game'.level = game.level + 1
    \/ /\ ~game.victoryExiting /\ game'.victoryExiting
       /\ \A i \in 1..Len(game.entities) : game.entities[i].type # "IMPOSSIBLE_FINAL_BOSS"

\* C13: nextLevel runs only in a tick in which the player touches the exit
\* and no hostile entity is alive; in every other step, a touch of the exit
\* with a hostile alive included, the level counter stays and the game
\* state does not become EXITING.
C13_ExitNeedsClearedRoom ==
    [][/\ Advanced => calls'.next = [touch |-> TRUE, active |-> 0]
       /\ calls'.next # [touch |-> TRUE, active |-> 0] =>
             /\ game'.level <= game.level
             /\ gameState' = "EXITING" => gameState = "EXITING"]_vars

\* C13 witness: the player has killed the two enemies of the second room
\* with the pistol and has touched the exit; the level counter is 3.
C13_LeftClearedRoom ==
    /\ gameState = "EXITING"
    /\ game.level = 3
    /\ calls.next = [touch |-> TRUE, active |-> 0]
    /\ HasPlayer(game)
    /\ game.player[1].money = Earned(2, difficulty)
    /\ ActiveEnemies(game) = 0

----------------------------------------------------------------------------
(* Specification SpecExit: the exits of the first two rooms of an EASY run  *)
(* under fire.  The player has the pistol and one hitpoint.  In the first   *)
(* room the enemy fires, the player's projectiles hit it, its projectiles   *)
(* hit the player, and the player touches the exit; in the second room the  *)
(* player's projectiles hit the two enemies and the player touches the      *)
(* exit; in the third room nothing overlaps any more.                       *)

ExitDraws == {d \in PlainDraws : ~d.types[1].tank /\ ~d.types[1].arch}

InitExit ==
    \E d \in ExitDraws : At(InRoom(1, "EASY", [NewPlayer EXCEPT !.hp = 1], d), "EASY")

ExitLevels == {1, 2}

\* What can happen in the room of a level: everything in the first room; in
\* the second the enemies no longer fire.
ExitKinds(level) ==
    IF level = 1 THEN {"exit", "fires", "pHit", "eHit"}
    ELSE IF level \in ExitLevels THEN {"exit", "pHit"}
    ELSE {}

ExitTick == RunTick(ExitKinds(game.level), {FALSE}, ExitLevels, TRUE)

ExitTimer == \E k \in 1..Len(timers), d \in ExitDraws : TimerFire(k, d)

NextExit ==
    \/ ExitTick
    \/ ExitTimer
    \/ MouseDown
    \/ MouseUp
    \/ KeyDown
    \/ KeyUp
    \/ BackToMenu

SpecExit == InitExit /\ [][NextExit]_vars

\* C14: a step in which nextLevel has run below the terminal level raises
\* the level counter by exactly 1, enters EXITING and leaves the timer of
\* the next room pending; on the terminal level of a run that is not
\* IMPOSSIBLE the level counter stays and the victory exit begins; no step
\* raises the level counter by more than 1; and the timer of the next room,
\* when it runs in EXITING, loads the room of the new level.
C14_ExitPassesThroughExiting ==
    [][/\ game'.level <= game.level + 1
       /\ Advanced =>
             IF game.level = TerminalLevel /\ difficulty # "IMPOSSIBLE"
             THEN /\ game'.level = game.level
                  /\ game'.victoryExiting
                  /\ gameState' = "EXITING"
             ELSE /\ game'.level = game.level + 1
                  /\ gameState' = "EXITING"
                  /\ Len(timers') = Len(timers) + 1
                  /\ timers'[Len(timers')].kind = "level"
       /\ (gameState = "EXITING" /\ Len(timers') < Len(timers) /\ ~game.victoryExiting) =>
             /\ gameState' = "PLAYING"
             /\ game'.level = game.level
             /\ calls'.load.level = game.level
             /\ calls'.load.n # calls.load.n]_vars

\* C15: a timer callback that runs while the game state is GAMEOVER or MENU
\* changes neither the game state nor the room nor the player.
C15_LateTimerIsNoOp ==
    [][(Len(timers') < Len(timers) /\ gameState \in {"GAMEOVER", "MENU"}) =>
          /\ gameState' = gameState
          /\ game' = game]_vars

\* C16: what a frame of the running game reads holds nothing that an
\* earlier frame has marked dead or left without hitpoints or lifetime: at
\* the start of every PLAYING frame game.entities and game.projectiles are
\* free of such elements.
C16_NoDeadBetweenFrames ==
    (gameState = "PLAYING" /\ loopAlive) =>
        /\ \A i \in 1..Len(game.entities) :
              /\ ~game.entities[i].dead
              /\ Hostile(game.entities[i]) => game.entities[i].hp > 0
        /\ \A k \in 1..Len(game.projectiles) :
              ~game.projectiles[k].dead /\ game.projectiles[k].lifetime > 0

----------------------------------------------------------------------------
(* The shop *)

\* The step is a purchase request for the item id.
Requests(id) == calls'.buy.id = id /\ calls'.buy.n # calls.buy.n

\* C17: a purchase request for an item the player cannot pay, or for the
\* weapon the player holds, changes nothing of the player; a request that
\* is applied takes the cost of the item and nothing more.
C17_RefusedPurchaseIsNoOp ==
    [][\A id \in DOMAIN SHOP_ITEMS :
          (Requests(id) /\ HasPlayer(game)) =>
              LET item == SHOP_ITEMS[id]
                  p == game.player[1]
              IN /\ (\/ p.money < item.cost
                     \/ item.type = "WEAPON" /\ p.weapon = item.arg) =>
                        game'.player = game.player
                 /\ game'.player[1].money \in {p.money, p.money - item.cost}]_vars

----------------------------------------------------------------------------
(* The unlocking of IMPOSSIBLE *)

\* C18: a HARD run that is won has defeated the mid boss of level 10 on its
\* way, so onUnlockImpossible has been invoked exactly once when the
\* victory comes; and an invocation of the handler that finds
\* impossibleUnlocked set writes nothing.
C18_HardVictoryUnlocksOnce ==
    [][/\ (difficulty = "HARD" /\ gameState # "VICTORY" /\ gameState' = "VICTORY") =>
             calls.unlock = 1
       /\ (calls'.unlock # calls.unlock /\ saveData.impossibleUnlocked) =>
             saveData' = saveData /\ storage' = storage]_vars

----------------------------------------------------------------------------
(* Specification SpecDamage: damageEnemy as a function of its arguments.    *)
(* One enemy of each type that damageEnemy tells apart by its bounty, with  *)
(* the hitpoints initLevel gives it on each difficulty, is hit with the     *)
(* damage of each weapon until it is dead.  initLevel creates no MID_BOSS   *)
(* in any room (level 10 is a shop or the room of the terminal boss), so    *)
(* for this type the enemy is an argument of the function and not a state   *)
(* of a run.                                                                *)

BountyTypes == {"NORMAL", "ARCHER", "TANK", "MID_BOSS"}

DamageRoom(type, diff) ==
    [InRoom(7, diff, NewPlayer, AnyDraw) EXCEPT !.game.entities = <<NewEnemy(type, diff)>>]

InitDamage ==
    \E type \in BountyTypes, diff \in Difficulties : At(DamageRoom(type, diff), diff)

\* damageEnemy(e, weapon.dmg) on a living enemy.
Hit ==
    /\ gameState = "PLAYING"
    /\ \E i \in 1..Len(game.entities), w \in DOMAIN WEAPONS :
          /\ ~game.entities[i].dead
          /\ Commit(damageEnemy(Ctx, i, WEAPONS[w].dmg, difficulty, loopSave),
                    difficulty, AnyDraw)

NextDamage == Hit

SpecDamage == InitDamage /\ [][NextDamage]_vars

\* C19: a hit that brings the hitpoints of an enemy other than the terminal
\* boss from above 0 to 0 or below marks it dead and adds 5 to the player's
\* money for a NORMAL, ARCHER or TANK and 50 for a MID_BOSS, on every
\* difficulty; a hit that leaves hitpoints above 0 adds nothing and leaves
\* the enemy alive.
C19_BountyOnDeath ==
    [][\A i \in 1..Len(game.entities) :
          (/\ i <= Len(game'.entities)
           /\ game.entities[i].type \in BountyTypes
           /\ game.entities[i].hp > 0
           /\ game'.entities[i].hp < game.entities[i].hp) =>
              LET e == game'.entities[i]
                  gain == game'.player[1].money - game.player[1].money
              IN /\ e.hp <= 0 =>
                       e.dead /\ gain = (IF e.type = "MID_BOSS" THEN 50 ELSE 5)
                 /\ e.hp > 0 => ~e.dead /\ gain = 0]_vars

\* C19 witness: a TANK of a HARD run, whose stats carry a money field of
\* 12, has been killed and the player has 5.
C19_TankPaidFive ==
    /\ difficulty = "HARD"
    /\ Len(game.entities) = 1
    /\ game.entities[1].type = "TANK"
    /\ game.entities[1].dead
    /\ game.player[1].money = 5

----------------------------------------------------------------------------
(* The trigger *)

\* C21: a weapon that is not automatic fires once for each time the trigger
\* is engaged: no two shots fall into one uninterrupted hold of the trigger.
C21_OneShotPerEngagement == calls.shots <= 1

----------------------------------------------------------------------------
(* Room generation *)

\* The room that is loaded is a combat room as initLevel has left it.
CombatRoomLoaded ==
    /\ game.currentRoom.rows > 0
    /\ ~game.victoryExiting
    /\ RoomKind(calls.load.level, calls.load.diff) = "COMBAT"

\* C22: in a combat room the exit cell holds the exit code, and the exit
\* cell, the cell under the player's feet at the spawn (col 2, row rows-2)
\* and the cell the player's body is placed in (col 2, row rows-3) hold no
\* wall, platform or hazard.
C22_ExitAndSpawnKept ==
    CombatRoomLoaded =>
        /\ getTile(game, Cols - 2, Rows - 2) = EXIT
        /\ getTile(game, 2, Rows - 2) = EMPTY
        /\ getTile(game, 2, Rows - 3) = EMPTY

----------------------------------------------------------------------------
(* Specification SpecGen: the rooms initLevel builds, for draws that reach  *)
(* the ends of their ranges.  The scatter segments start in the first or    *)
(* the last column and row the code can draw, have the least or the         *)
(* greatest length and either code; the hazards are none, the first, the    *)
(* last or all columns of their range; the coin loop gets the same draw at  *)
(* every test, or falling draws; the spawn cell of an enemy is sampled on   *)
(* the first cell of the segment for the first 0, 1, 49 or 50 samples and   *)
(* on an empty cell afterwards.  The runs are those of SpecRooms.           *)

GenSegs ==
    {[x |-> x, y |-> y, len |-> len, t |-> t] :
        x \in {2, Cols - 3}, y \in {2, Rows - 3}, len \in {2, 6}, t \in {WALL, PLATFORM}}

GenHazards == {{}, {5}, {Cols - 3}, 5..(Cols - 3)}

GenCoinDraws == {[j \in 1..5 |-> q] : q \in 0..4} \cup {<<4, 3, 2, 1, 0>>}

\* A cell no segment of GenSegs covers.
FreeCell == <<4, 4>>

GenSamples(sg) ==
    {[lead |-> n, a |-> <<sg.x, sg.y>>, b |-> FreeCell] : n \in {0, 1, 49, 50}}

GenDraws ==
    UNION {{[segs |-> [j \in 1..20 |-> sg], hazards |-> hz,
             types |-> [i \in 1..6 |-> [arch |-> FALSE, tank |-> FALSE]],
             heart |-> h, coins |-> CoinLoop(rs, 0), samples |-> sm] :
               hz \in GenHazards, h \in BOOLEAN, rs \in GenCoinDraws,
               sm \in GenSamples(sg)} : sg \in GenSegs}

\* The draws of the rooms the runs start in: a platform at the top right,
\* no hazard, no pickup.
StartDraw ==
    CHOOSE d \in GenDraws :
        /\ d.segs[1] = [x |-> Cols - 3, y |-> 2, len |-> 2, t |-> PLATFORM]
        /\ d.hazards = {} /\ ~d.heart /\ d.coins = 0 /\ d.samples.lead = 0

InitGen ==
    \/ Mount
    \/ \E level \in {3, 4} :
          At(Cleared(InRoom(level, "EASY", NewPlayer, StartDraw), level, "EASY"), "EASY")
    \/ At(Cleared(InRoom(TerminalLevel - 1, "IMPOSSIBLE", NewPlayer, StartDraw),
                  TerminalLevel - 1, "IMPOSSIBLE"), "IMPOSSIBLE")

NextGen ==
    \/ \E d \in GenDraws : StartGame("EASY", d)
    \/ CloseShop
    \/ \E k \in 1..Len(timers), d \in GenDraws : TimerFire(k, d)
    \/ Tick({"exit"}, TerminalLevel)

SpecGen == InitGen /\ [][NextGen]_vars

\* C23: a combat room holds at most one heart and at most three coins.
C23_PickupCounts ==
    CombatRoomLoaded =>
        /\ Cardinality({i \in 1..Len(game.entities) : game.entities[i].type = "HEART"}) <= 1
        /\ Cardinality({i \in 1..Len(game.entities) : game.entities[i].type = "MONEY"}) <= 3

\* C24: the spawn cell of an enemy is sampled at most 50 times; when the
\* last sample taken is an empty cell the enemy stands on it, and the enemy
\* stands on the fallback cell only when no sample was empty.
C24_SpawnOnEmptySample ==
    (CombatRoomLoaded /\ calls.spawn.attempts > 0) =>
        LET sp == calls.spawn
        IN /\ sp.attempts <= 50
           /\ getTile(game, sp.sx, sp.sy) = EMPTY =>
                 ~sp.fallback /\ sp.x = sp.sx /\ sp.y = sp.sy
           /\ sp.fallback => sp.x = Cols \div 2 /\ sp.y = 2

----------------------------------------------------------------------------
(* getTile *)

\* The coordinates getTile is asked about: the grid and one cell beyond it
\* on every side.
ProbeCols == -1..Cols
ProbeRows == -1..Rows

InGrid(g, x, y) ==
    /\ g.currentRoom.rows # 0
    /\ x >= 0 /\ x < g.currentRoom.cols
    /\ y >= 0 /\ y < g.currentRoom.rows

\* mapTiles[y][x] is a read of an existing row and an existing cell.
Stored(g, x, y) ==
    /\ y + 1 \in DOMAIN g.mapTiles
    /\ x + 1 \in DOMAIN g.mapTiles[y + 1]

\* C25: getTile returns the solid code 1 for every coordinate left of, right
\* of, above or below the grid and for every coordinate while no room is
\* loaded (rows = 0); for a coordinate inside the grid the cell exists in
\* mapTiles and getTile returns the code stored there.
C25_GetTileTotal ==
    \A x \in ProbeCols, y \in ProbeRows :
        IF InGrid(game, x, y)
        THEN Stored(game, x, y) /\ getTile(game, x, y) = game.mapTiles[y + 1][x + 1]
        ELSE getTile(game, x, y) = WALL

\* The first room of a run just started: the exit code is read back from
\* inside the grid and the solid code from the column right of it, the row
\* below it and the corner above left of it.
C25_ExitReadInsideWallOutside ==
    /\ game.currentRoom.rows = Rows
    /\ game.level = 1
    /\ HasType(game, "NORMAL")
    /\ getTile(game, Cols - 2, Rows - 2) = EXIT
    /\ getTile(game, Cols, Rows - 2) = WALL
    /\ getTile(game, Cols - 2, Rows) = WALL
    /\ getTile(game, -1, -1) = WALL

----------------------------------------------------------------------------
(* The border of the tile grid *)

BorderCells ==
    {<<x, y>> \in (0..(Cols - 1)) \X (0..(Rows - 1)) :
        x = 0 \/ x = Cols - 1 \/ y = 0 \/ y = Rows - 1}

\* C26: in every state with a loaded room, outside the boss-intro crumble
\* and the wall removal after the victory, every cell of row 0, row rows-1,
\* column 0 and column cols-1 of the tile grid is solid.
C26_BorderSolid ==
    (game.currentRoom.rows > 0 /\ gameState # "BOSS_INTRO" /\ ~game.victoryExiting) =>
        \A cell \in BorderCells : TileOf(game.mapTiles, cell[1], cell[2]) = WALL

----------------------------------------------------------------------------
(* Specification SpecFlight: projectiles.  In the first room of an EASY run *)
(* the player fires the pistol at the one enemy; in the room of level 7 of  *)
(* a HARD run a TANK fires at a player with two hitpoints.  A projectile    *)
(* enters a solid tile in the tick it is fired, MaxFlight ticks later, or   *)
(* not before its lifetime has run out; a new shot is fired only when no    *)
(* projectile is in flight.                                                 *)

\* A flight longer than every lifetime (120, 200, 100).
LongFlight == 201

FlightChoices == {1, MaxFlight, LongFlight}

FlightKinds(level) == IF level = 1 THEN {"pHit"} ELSE {"fires", "eHit"}

InitFlight == InitHurt

FlightEventSets(g) ==
    {E \in RunEventSets(g, FlightKinds(g.level), {}, TRUE) :
        Count(E, "fires") > 0 => g.projectiles = <<>>}

FlightTick ==
    /\ loopAlive
    /\ gameState \in {"PLAYING", "BOSS_INTRO", "EXITING"}
    /\ \E E \in (IF gameState = "PLAYING" THEN FlightEventSets(game) ELSE {{}}) :
       \E f \in (IF gameState = "PLAYING" /\ Fires(game, E) THEN FlightChoices ELSE {1}) :
       \E c \in {LoopBody(Ctx, gameState, Input(E, f, {}), difficulty, loopSave)} :
          Commit(c, difficulty, AnyDraw)

FlightMouseDown == game.level = 1 /\ game.projectiles = <<>> /\ MouseDown

NextFlight ==
    \/ FlightTick
    \/ FlightMouseDown

SpecFlight == InitFlight /\ [][NextFlight]_vars

\* C27: between two frames every projectile in game.projectiles is not
\* flagged dead, is not in a solid tile and has a remaining lifetime of at
\* least 1 that equals its configured lifetime minus the number of frames it
\* has been in the list for: the lifetime falls by exactly 1 in every frame
\* and the projectile is in the list for fewer frames than its configured
\* lifetime.
C27_LifetimeCountsTicks ==
    \A k \in 1..Len(game.projectiles) :
        LET p == game.projectiles[k]
        IN /\ ~p.dead
           /\ p.wallIn >= 1
           /\ p.lifetime >= 1
           /\ p.ticks >= 1
           /\ p.lifetime = p.configured - p.ticks

\* An enemy projectile in the last frame before its lifetime runs out.
C27_LastFrameOfFlight ==
    \E k \in 1..Len(game.projectiles) :
        /\ game.projectiles[k].owner = "enemy"
        /\ game.projectiles[k].lifetime = 1
        /\ game.projectiles[k].ticks = 199

----------------------------------------------------------------------------
(* Specification SpecPhysics: the player's body in a room whose scatter has *)
(* put a one-way segment in row 3 and a wall segment in row 6, both over    *)
(* columns 3..5.  The player stands on the one-way segment, on the wall     *)
(* segment or on the floor, is steered left and right and made to jump.     *)

PhysicsTiles ==
    [r \in 1..Rows |-> [c \in 1..Cols |->
        IF r - 1 = 3 /\ c - 1 \in 3..5 THEN PLATFORM
        ELSE IF r - 1 = 6 /\ c - 1 \in 3..5 THEN WALL
        ELSE WithBorder(BlankMap)[r][c]]]

\* The physical fields of the player (w: 28, h: 36), at rest at (x, y).
Body(x, y) ==
    [x |-> x * Sub, y |-> y * Sub, w |-> 28 * Sub, h |-> 36 * Sub,
     vx |-> 0, vy |-> 0, onGround |-> TRUE, dead |-> FALSE]

\* The player is steered to the right only while left of this column.
MaxWalk == 8

PhysicsBodies == {Body(166, row * TILE_SIZE - 36) : row \in {3, 6, Rows - 1}}

InitPhysics ==
    \E b \in PhysicsBodies :
        At([InRoom(1, "EASY", NewPlayer, StartDraw) EXCEPT
               !.game.mapTiles = PhysicsTiles,
               !.game.entities = <<>>,
               !.game.player = <<b>>], "EASY")

\* The inputs of one frame for the body b: the player moves left, right or
\* not at all and may jump.
Steering(b) ==
    {Steer(b, dir, jump) :
        dir \in (IF b.x < MaxWalk * Tile THEN {-1, 0, 1} ELSE {-1, 0}),
        jump \in BOOLEAN}

\* One frame of the body: the movement input, then updatePhysics.
PhysicsFrame ==
    /\ gameState = "PLAYING"
    /\ \E e \in Steering(game.player[1]) :
          game' = [game EXCEPT !.player = <<updatePhysics(game, e)>>]
    /\ UNCHANGED <<gameState, difficulty, saveData, stats, storage, timers, loopSave,
                   loopAlive, calls>>

NextPhysics == PhysicsFrame

SpecPhysics == InitPhysics /\ [][NextPhysics]_vars

\* The columns the body e overlaps and the row under its bottom edge.
ColumnsOf(e) == (e.x \div Tile)..((e.x + e.w - 1) \div Tile)
RowUnder(e) == (e.y + e.h) \div Tile

\* The bottom edge of e lies exactly on the top of a solid tile under e.
RestsOnSolid(g, e) ==
    /\ (e.y + e.h) % Tile = 0
    /\ \E c \in ColumnsOf(e) : getTile(g, c, RowUnder(e)) = WALL

\* e overlaps a solid tile.
InSolid(g, e) == \E k \in 1..Len(Cells(e)) : getTile(g, Cells(e)[k][1], Cells(e)[k][2]) = WALL

\* C28 as stated: for every body resting on a solid tile (bottom edge exactly
\* on the tile top) with zero vertical velocity, whatever its horizontal
\* velocity, one updatePhysics step leaves y unchanged, the vertical velocity
\* 0 and the grounded flag true.
C28_RestingStaysPut ==
    \A e \in Steering(game.player[1]) :
        (RestsOnSolid(game, e) /\ e.vy = 0) =>
            LET n == updatePhysics(game, e)
            IN n.y = e.y /\ n.vy = 0 /\ n.onGround

\* C28 amended: the same for a live body that, after the horizontal part of
\* the step, overlaps no solid tile and still has its bottom edge on the top
\* of a solid tile under it.
C28_RestingStaysPutOverTile ==
    \A e \in Steering(game.player[1]) :
        LET m == HPhase(game, e)
            at == [m EXCEPT !.y = e.y]
        IN (~e.dead /\ e.vy = 0 /\ RestsOnSolid(game, at) /\ ~InSolid(game, at)) =>
               LET n == updatePhysics(game, e)
               IN n.y = e.y /\ n.vy = 0 /\ n.onGround

\* The player stands on the right end of the wall segment and is about to
\* walk on it to the left.
C28_WalksOnSegment ==
    LET b == game.player[1]
    IN /\ b.onGround /\ b.vy = 0
       /\ b.y + b.h = 6 * Tile
       /\ b.x = 6 * Tile - 1 * Sub
       /\ RestsOnSolid(game, b)

\* The body e as the second double loop of the step meets it: after gravity,
\* the horizontal part and the vertical move.
Fallen(g, e) == LET m == HPhase(g, e) IN [m EXCEPT !.y = @ + m.vy]

\* The cells of the second double loop that hold the tile code t.
Met(g, e, t) ==
    {Cells(Fallen(g, e))[k] : k \in {j \in 1..Len(Cells(Fallen(g, e))) :
        getTile(g, Cells(Fallen(g, e))[j][1], Cells(Fallen(g, e))[j][2]) = t}}

\* C29: a body that moves downward onto a one-way tile and had its bottom
\* edge at or above the top of the tile before the step ends the step with
\* its bottom edge exactly on that top, vy = 0 and grounded; a body that
\* moves upward (vy <= 0 after gravity) and meets no solid tile is neither
\* moved nor slowed by a one-way tile; and a body that meets no solid tile in
\* the first loop keeps its horizontal move and velocity.
C29_OneWayPlatform ==
    \A e \in Steering(game.player[1]) :
        LET n == updatePhysics(game, e)
            f == Fallen(game, e)
        IN /\ \A cell \in Met(game, e, PLATFORM) :
                 (f.vy > 0 /\ e.y + e.h <= cell[2] * Tile) =>
                     n.y + n.h = cell[2] * Tile /\ n.vy = 0 /\ n.onGround
           /\ (f.vy <= 0 /\ Met(game, e, WALL) = {}) => n.y = f.y /\ n.vy = f.vy
           /\ (\A k \in 1..Len(Cells([e EXCEPT !.x = @ + e.vx])) :
                  getTile(game, Cells([e EXCEPT !.x = @ + e.vx])[k][1],
                                Cells([e EXCEPT !.x = @ + e.vx])[k][2]) # WALL) =>
                 n.x = e.x + e.vx /\ n.vx = e.vx

----------------------------------------------------------------------------
(* The boss-intro cutscene.  calls.intro counts the BOSS_INTRO frames since *)
(* the room was loaded.                                                     *)

\* The row cleared by the frame that makes the n-th addition of 0.05.
IntroRow(n) == Rows - 2 - CrumbleFloor(n)

\* C30: every BOSS_INTRO frame but the last adds 0.05 to the crumble
\* progress and changes only cells of one row in 0..rows-2, in columns
\* 1..cols-2, from solid to empty; the frame that finds the progress at
\* rows-2 or above sets PLAYING and changes no tile; the cutscene is over
\* after a bounded number of frames (162); and once the state has left
\* BOSS_INTRO it does not return to it while the same room is loaded.
C30_BossIntroTerminates ==
    [][LET n == game.mapCrumbleProgress
           n2 == game'.mapCrumbleProgress
       IN /\ (gameState = "BOSS_INTRO" /\ calls'.intro # calls.intro) =>
                 IF n <= CrumbleLast
                 THEN /\ n2 = n + 1
                      /\ gameState' = "BOSS_INTRO"
                      /\ IntroRow(n2) \in 0..(Rows - 2)
                      /\ \A x \in 0..(Cols - 1), y \in 0..(Rows - 1) :
                            TileOf(game'.mapTiles, x, y) # TileOf(game.mapTiles, x, y) =>
                                /\ y = IntroRow(n2)
                                /\ x \in 1..(Cols - 2)
                                /\ TileOf(game.mapTiles, x, y) = WALL
                                /\ TileOf(game'.mapTiles, x, y) = EMPTY
                 ELSE /\ gameState' = "PLAYING"
                      /\ n2 = n
                      /\ game'.mapTiles = game.mapTiles
          /\ gameState' = "BOSS_INTRO" => calls'.intro <= CrumbleLast + 1
          /\ (gameState # "BOSS_INTRO" /\ calls'.load = calls.load) =>
                 gameState' # "BOSS_INTRO"]_vars

\* The fight has begun after 162 frames of the cutscene, the last crumble
\* frame having cleared cells of row 0.
C30_IntroOverAfterCrumble ==
    /\ gameState = "PLAYING"
    /\ HasBoss(game)
    /\ calls.intro = CrumbleLast + 2
    /\ game.mapCrumbleProgress = CrumbleLast + 1
    /\ getTile(game, 1, 0) = EMPTY

----------------------------------------------------------------------------
(* Specification SpecIdle: the frames outside PLAYING.  Every run starts    *)
(* with the state a PLAYING frame has left: the player, walking right on    *)
(* the floor, has reached the exit rectangle and fired the pistol in the    *)
(* same frame (cleared rooms of level 1 and 4 of an EASY run, cleared room  *)
(* of level 9 of an IMPOSSIBLE run, shop room of level 10 of a HARD run), or *)
(* the enemy of the first room of an EASY run has fired and touched a       *)
(* player with one hitpoint.  From there the frames of EXITING and          *)
(* BOSS_INTRO, the timers and the buttons of the shop, game-over and        *)
(* victory screens are followed; the frames of a room that is being played  *)
(* belong to the other specifications.                                      *)

\* The record p with the fields of b added.
WithBody(p, b) ==
    [f \in DOMAIN p \cup DOMAIN b |-> IF f \in DOMAIN b THEN b[f] ELSE p[f]]

\* The player in the first frame in which its rectangle overlaps the exit
\* rectangle, having walked there on the floor from the spawn point.
AtExit(p) ==
    WithBody(p, [Body((Cols - 2) * TILE_SIZE - 28 + 4, (Rows - 1) * TILE_SIZE - 36)
                    EXCEPT !.vx = 4 * Sub])

\* The rooms the player leaves, as contexts of the frame that follows.
IdleRooms ==
    {[c EXCEPT !.game.player = <<AtExit(@[1])>>, !.game.mouseDown = TRUE] :
        c \in {Cleared(InRoom(1, "EASY", NewPlayer, StartDraw), 1, "EASY"),
               Cleared(InRoom(4, "EASY", NewPlayer, StartDraw), 4, "EASY"),
               Cleared(InRoom(TerminalLevel - 1, "IMPOSSIBLE", NewPlayer, StartDraw),
                       TerminalLevel - 1, "IMPOSSIBLE"),
               setGameState(Cleared(InRoom(TerminalLevel, "HARD", NewPlayer, StartDraw),
                                    TerminalLevel, "HARD"), "PLAYING")}}

\* The first room of an EASY run, the player with one hitpoint left.
IdleFight ==
    [InRoom(1, "EASY", [NewPlayer EXCEPT !.hp = 1], StartDraw) EXCEPT
        !.game.player = <<AtExit(@[1])>>]

InitIdle ==
    \/ \E c \in IdleRooms :
          At(LoopBody(c, "PLAYING", Input({Ev("exit", 0, 0)}, MaxFlight, {}),
                      IF c.save.impossibleUnlocked THEN "IMPOSSIBLE"
                      ELSE IF c.game.level < 5 THEN "EASY" ELSE "HARD", c.save),
             IF c.save.impossibleUnlocked THEN "IMPOSSIBLE"
             ELSE IF c.game.level < 5 THEN "EASY" ELSE "HARD")
    \/ At(LoopBody(IdleFight, "PLAYING",
                   Input({Ev("fires", 1, 0), Ev("touch", 1, 0)}, MaxFlight, {}),
                   "EASY", IdleFight.save), "EASY")

\* The frames of EXITING are followed until the player has left this column
\* behind.
WalkOffEnd == 21

IdleTick ==
    /\ gameState # "PLAYING"
    /\ (gameState = "EXITING" /\ HasPlayer(game)) => game.player[1].x < WalkOffEnd * Tile
    /\ Tick({}, 0)

IdleTimer == \E k \in 1..Len(timers) : TimerFire(k, StartDraw)

NextIdle ==
    \/ IdleTick
    \/ IdleTimer
    \/ CloseShop
    \/ BackToMenu

SpecIdle == InitIdle /\ [][NextIdle]_vars

\* The inputs a frame can meet in the room of g: nothing or everything
\* overlaps, is pressed and fires.
FrameInputs(g) ==
    {[fell |-> a, hazard |-> a, touchExit |-> b,
      melee |-> IF a THEN 1..Len(g.entities) ELSE {},
      touch |-> IF b THEN 1..Len(g.entities) ELSE {},
      fires |-> IF b THEN 1..Len(g.entities) ELSE {},
      pTarget |-> IF a /\ g.entities # <<>> THEN 1 ELSE 0,
      pCount |-> IF a THEN Len(g.projectiles) ELSE 0,
      eHits |-> IF b THEN 1 ELSE 0,
      flight |-> MaxFlight, crumble |-> cr, snap |-> sn] :
        a \in BOOLEAN, b \in BOOLEAN, sn \in BOOLEAN, cr \in CrumbleDraws}

\* C31: a frame of a game state other than PLAYING, whatever overlaps and
\* whatever is pressed, leaves the player's hitpoints, money, weapon and
\* countdowns, the entities, the projectiles, the level counter, the pending
\* timers and the save data as they are and invokes no progression
\* callback; in EXITING it changes nothing of the game but the player's
\* body, which is moved 4 to the right and then stepped by updatePhysics;
\* in MENU, SHOP, GAMEOVER and VICTORY it changes nothing at all.
C31_IdleFramesRunNoLogic ==
    gameState # "PLAYING" =>
        \A in \in FrameInputs(game) :
            LET c == LoopBody(Ctx, gameState, in, difficulty, loopSave)
            IN /\ ~c.crashed
               /\ c.game.level = game.level
               /\ c.game.projectiles = game.projectiles
               /\ c.game.entities = game.entities
               /\ Len(c.game.player) = Len(game.player)
               /\ \A k \in 1..Len(game.player) :
                     \A f \in {"hp", "maxHp", "money", "weapon", "inventory", "hasArmor",
                               "invincibleTimer", "attackCooldown"} :
                         c.game.player[k][f] = game.player[k][f]
               /\ c.timers = timers
               /\ c.save = saveData
               /\ c.store = storage
               /\ c.calls = [calls EXCEPT !.intro = c.calls.intro]
               /\ gameState = "EXITING" =>
                     /\ c.gs = "EXITING"
                     /\ c.game = [game EXCEPT !.player = c.game.player]
                     /\ \A k \in 1..Len(game.player) :
                           HasBody(game.player[k]) =>
                               c.game.player[k] =
                                   updatePhysics(game, [game.player[k] EXCEPT !.x = @ + 4 * Sub])
               /\ gameState \notin {"EXITING", "BOSS_INTRO"} => c = Ctx

\* C31 witness: three frames into EXITING the player, who walked into the
\* exit at speed 4, is 24 further right, and the projectile fired in the
\* frame of the exit is still in the list with the lifetime it had then.
C31_WalkedOffThreeFrames ==
    /\ gameState = "EXITING"
    /\ HasPlayer(game)
    /\ game.player[1].x = AtExit(NewPlayer).x + 3 * 8 * Sub
    /\ Len(game.projectiles) = 1
    /\ game.projectiles[1].lifetime = 119
    /\ Len(timers) = 1

----------------------------------------------------------------------------
(* The shop room *)

\* The room that is loaded is the one initLevel builds for a shop level.
ShopRoomLoaded ==
    /\ game.currentRoom.rows > 0
    /\ calls.load.level >= 1
    /\ RoomKind(calls.load.level, calls.load.diff) = "SHOP"

----------------------------------------------------------------------------
(* The enemies of a combat room *)

\* The hostile entities of g.
Foes(g) == {i \in 1..Len(g.entities) : Hostile(g.entities[i])}

\* C33: a call of initLevel that builds a combat room for level L leaves
\* min(6, floor(L/2) + 1) hostile entities in it, one fewer but at least 1
\* on NORMAL, so between 1 and 6; all of them are of type NORMAL when
\* L <= 3, none is an ARCHER unless L > 3 and none is a TANK unless L > 6.
C33_EnemyCountAndTypes ==
    [][(Loads /\ RoomKind(calls'.load.level, calls'.load.diff) = "COMBAT") =>
          LET L == calls'.load.level
              n == IF (L \div 2) + 1 < 6 THEN (L \div 2) + 1 ELSE 6
              want == IF calls'.load.diff = "NORMAL" THEN (IF n - 1 > 1 THEN n - 1 ELSE 1)
                      ELSE n
          IN /\ Cardinality(Foes(game')) = want
             /\ Cardinality(Foes(game')) \in 1..6
             /\ \A i \in Foes(game') :
                   /\ game'.entities[i].type \in {"NORMAL", "ARCHER", "TANK"}
                   /\ L <= 3 => game'.entities[i].type = "NORMAL"
                   /\ game'.entities[i].type = "ARCHER" => L > 3
                   /\ game'.entities[i].type = "TANK" => L > 6]_vars

\* C33 witness: the room of level 7 of a NORMAL run has been loaded with
\* three enemies, a TANK among them.
C33_ThreeTanksOnLevelSeven ==
    /\ calls.load.level = 7
    /\ calls.load.diff = "NORMAL"
    /\ gameState = "PLAYING"
    /\ Cardinality(Foes(game)) = 3
    /\ HasType(game, "TANK")

----------------------------------------------------------------------------
(* The salvos of the terminal boss *)

\* The enemy projectiles of g that were pushed in the frame that has just
\* ended.
FreshShots(g) ==
    Cardinality({k \in 1..Len(g.projectiles) :
                    g.projectiles[k].owner = "enemy" /\ g.projectiles[k].ticks = 1})

\* The index of the terminal boss in g.entities.
BossIndex(g) == CHOOSE i \in 1..Len(g.entities) : g.entities[i].type = "IMPOSSIBLE_FINAL_BOSS"

\* C34: the terminal boss is created in ATTACK with a cooldown of 90, and
\* only a PLAYING frame changes it.  A PLAYING frame that finds it in ATTACK
\* with a cooldown above 1 lowers the cooldown by exactly 1 and fires
\* nothing; the frame that finds the cooldown at 1 fires a salvo, raises the
\* attack counter by 1 and sets the cooldown to 50: the first salvo falls in
\* the 90th PLAYING frame and every later one of the phase in the 50th frame
\* after the one before.  A salvo pushes exactly 16 projectiles, all of the
\* enemy.  Asleep the boss fires nothing and keeps the cooldown of 50, so
\* the frame in which it wakes leaves 50 frames to the next salvo.
C34_SalvoTiming ==
    [][/\ (Loads /\ HasBoss(game')) =>
              /\ TheBoss(game').bossState = "ATTACK"
              /\ TheBoss(game').attackCooldown = 90
              /\ TheBoss(game').attackCount = 0
       /\ (HasBoss(game) /\ HasBoss(game') /\ ~Loads) =>
              LET b == TheBoss(game)
                  b1 == TheBoss(game')
              IN IF calls'.frame = calls.frame THEN b1 = b
                 ELSE IF b.bossState = "ATTACK"
                 THEN IF b.attackCooldown > 1
                      THEN /\ b1.attackCooldown = b.attackCooldown - 1
                           /\ b1.attackCount = b.attackCount
                           /\ b1.bossState = "ATTACK"
                           /\ calls'.salvos = calls.salvos
                           /\ FreshShots(game') = 0
                      ELSE /\ b1.attackCooldown = 50
                           /\ b1.attackCount = b.attackCount + 1
                           /\ calls'.salvos = calls.salvos + 1
                           /\ FreshShots(game') \in {0, 16}
                           /\ LET c == BossStep(Ctx, BossIndex(game), Input({}, MaxFlight, {}))
                                  old == Len(game.projectiles)
                              IN /\ Len(c.game.projectiles) = old + 16
                                 /\ SubSeq(c.game.projectiles, 1, old) = game.projectiles
                                 /\ \A k \in (old + 1)..(old + 16) :
                                       /\ c.game.projectiles[k].owner = "enemy"
                                       /\ c.game.projectiles[k].lifetime = 200
                 ELSE /\ b1.attackCooldown = 50
                      /\ b.attackCooldown = 50
                      /\ FreshShots(game') = 0
                      /\ b1.bossState = "ATTACK" =>
                            b1.attackCount = 0 /\ b.sleepTimer = 1]_vars

\* C34 witness: the boss has woken, 50 frames have passed, and the first
\* salvo of its second attack phase is in the air.
C34_FirstSalvoAfterWaking ==
    /\ gameState = "PLAYING"
    /\ HasBoss(game)
    /\ TheBoss(game).bossState = "ATTACK"
    /\ TheBoss(game).attackCount = 1
    /\ TheBoss(game).attackCooldown = 50
    /\ TheBoss(game).sleepTimer = 0
    /\ TheBoss(game).hp = TheBoss(game).maxHp
    /\ calls.salvos = 1
    /\ FreshShots(game) = 16

----------------------------------------------------------------------------
(* Specification SpecVolley: the shotgun.  The player of an EASY run has    *)
(* bought the shotgun in the shop of level 5 with the bounties of the first *)
(* four rooms and has killed all but one or two of the four enemies of the  *)
(* room of level 6.  The player fires; the three projectiles of a shot      *)
(* overlap an enemy, some or all of them in the same frame.                 *)

VolleyPlayer ==
    [NewPlayer EXCEPT !.money = Earned(5, "EASY") - SHOP_ITEMS.shotgun.cost,
                      !.weapon = "SHOTGUN", !.inventory = {"PISTOL", "SHOTGUN"}]

InitVolley ==
    \E keep \in {1, 2} :
        At(Thinned(InRoom(6, "EASY", VolleyPlayer, CHOOSE d \in PlainDraws : TRUE), keep), "EASY")

VolleyTick == RunTick({"pHit"}, {FALSE}, {}, FALSE)

NextVolley ==
    \/ VolleyTick
    \/ MouseDown

SpecVolley == InitVolley /\ [][NextVolley]_vars

\* The hostile entities of g that have hitpoints left.
Standing(g) == Cardinality({i \in Foes(g) : g.entities[i].hp > 0})

\* C35: the bounty of an enemy is paid once: in every step the player's
\* money grows by no more than 5 for each enemy that the step has brought
\* from hitpoints above 0 to 0 or below (there is no coin and no boss in the
\* room), and the unlock callback is invoked no more often than enemies die.
C35_BountyPaidOnce ==
    [][(HasPlayer(game) /\ HasPlayer(game') /\ ~Loads) =>
          /\ game'.player[1].money - game.player[1].money
                <= 5 * (Standing(game) - Standing(game'))
          /\ calls'.unlock - calls.unlock <= Standing(game) - Standing(game')]_vars

----------------------------------------------------------------------------
(* The death of the terminal boss *)

\* The victory callbacks that are pending in the timers ts.
VictoriesPending(ts) == Cardinality({k \in 1..Len(ts) : ts[k].kind = "victory"})

\* C36: in a run the victory callback is scheduled at most once, counting
\* the callbacks that are pending and those that have run, and the
\* hitpoints of the terminal boss are between 0 and 3.
C36_OneVictoryBossHpInRange ==
    /\ VictoriesPending(timers) + calls.victory <= 1
    /\ HasBoss(game) => TheBoss(game).hp \in 0..(3 * Scale)

----------------------------------------------------------------------------
(* The start of a run *)

\* C37: the step from MENU to PLAYING leaves the level counter at 1 and loads
\* a room of level 1 for the difficulty chosen, whose entities are the
\* population of that room and in which no projectile flies.
C37_RunStartsOnFreshLevelOne ==
    [][(gameState = "MENU" /\ gameState' = "PLAYING") =>
          /\ game'.level = 1
          /\ Loads
          /\ calls'.load.level = 1
          /\ calls'.load.diff = difficulty'
          /\ game'.projectiles = <<>>]_vars

----------------------------------------------------------------------------
(* The level counter *)

\* C38: the level counter is between 1 and 10 before and after every step,
\* no step lowers it, and no step taken on level 10 changes it, whatever
\* the difficulty and whether or not the player touches the exit.
C38_LevelInRangeAndMonotone ==
    [][/\ game.level \in 1..TerminalLevel
       /\ game'.level \in 1..TerminalLevel
       /\ game'.level >= game.level
       /\ game.level = TerminalLevel => game'.level = TerminalLevel]_vars

\* The exit of the room of level 10 has been touched with no enemy left and
\* nextLevel has run: the level counter is still 10.
C38_ExitTakenOnLevelTen ==
    /\ game.level = TerminalLevel
    /\ calls.next.touch
    /\ calls.next.active = 0
    /\ gameState = "EXITING"

----------------------------------------------------------------------------
(* Specification SpecPurse: the player's money.  The room of level 4 of an  *)
(* EASY run with a heart and a coin in it, of whose enemies one is left,    *)
(* three pistol hits from its death.  The player fires and kills it, picks  *)
(* up, takes the exit, and buys in the shop of level 5.                     *)

\* The room of c after the player's pistol has hit every enemy in it as
\* often as it survives.
Wounded(c) ==
    [c EXCEPT !.game.entities =
        [k \in 1..Len(@) |->
            IF Hostile(@[k])
            THEN [@[k] EXCEPT !.hp = @ - WEAPONS.PISTOL.dmg * ((@ - 1) \div WEAPONS.PISTOL.dmg)]
            ELSE @[k]]]

InitPurse ==
    \E d \in ShopDraws :
        At(Wounded(Thinned(InRoom(4, "EASY", [NewPlayer EXCEPT !.money = Earned(3, "EASY")], d),
                           1)), "EASY")

PurseTick == RunTick({"exit", "touch", "pHit"}, BOOLEAN, {4}, FALSE)

PurseTimer == \E k \in 1..Len(timers), d \in PlainDraws : TimerFire(k, d)

NextPurse ==
    \/ PurseTick
    \/ PurseTimer
    \/ MouseDown
    \/ BuyItem
    \/ CloseShop

SpecPurse == InitPurse /\ [][NextPurse]_vars

\* The coins of g that have not been picked up.
Coins(g) ==
    Cardinality({i \in 1..Len(g.entities) : g.entities[i].type = "MONEY" /\ ~g.entities[i].dead})

\* The enemies of g that have no hitpoints left.
Slain(g) == {i \in Foes(g) : g.entities[i].hp <= 0}

\* C39: the player's money is never negative.  A step that lowers it is a
\* purchase in the shop: it lowers it by the cost of the item bought, which
\* is not more than the money the player had.  A step that raises it is a
\* frame of the room: it raises it by 1 for each coin picked up in the
\* frame, and by a multiple of 5 beyond that only when an enemy has died.
C39_MoneyNeverNegative ==
    [][(HasPlayer(game) /\ HasPlayer(game')) =>
          LET m == game.player[1].money
              m1 == game'.player[1].money
              coins == Coins(game) - Coins(game')
          IN /\ m >= 0
             /\ m1 >= 0
             /\ m1 < m =>
                   /\ gameState = "SHOP"
                   /\ calls'.buy # calls.buy
                   /\ m - m1 = SHOP_ITEMS[calls'.buy.id].cost
                   /\ SHOP_ITEMS[calls'.buy.id].cost <= m
             /\ m1 > m =>
                   /\ gameState = "PLAYING"
                   /\ ~Loads
                   /\ coins \in 0..3
                   /\ m1 - m >= coins
                   /\ (m1 - m - coins) % 5 = 0
                   /\ m1 - m > coins => Slain(game') # {}]_vars

\* C39 witness: the player has killed the enemy, picked up the coin and
\* spent all but 1 of the money in the shop, and the shop screen still shows
\* the money the player came with.
C39_SpentDownToOne ==
    /\ gameState = "SHOP"
    /\ HasPlayer(game)
    /\ game.player[1].money = 1
    /\ stats.money > 1

----------------------------------------------------------------------------
(* The loading of a room *)

\* The entities of a room just loaded for the level, of a run on diff.
Population(level, diff) ==
    CASE RoomKind(level, diff) = "BOSS" -> {<<FinalBoss>>}
      [] RoomKind(level, diff) = "SHOP" -> {<<Item("SHOPKEEPER")>>}
      [] OTHER -> {CombatEntities(level, diff, StartDraw)}

\* The fields of a player that initLevel writes.
SpawnFields == {"x", "y", "vx", "vy"}

============================================================================
